---- MODULE Spec2Model ----
(***************************************************************************)
(* The interactive region editor of YNAB Receipt Porter (src/js/modal.js   *)
(* with the modal listeners of src/js/app.js): one crop box, an ordered    *)
(* list of redaction boxes, and the pointer-drag state machine that moves, *)
(* resizes and draws them.                                                 *)
(*                                                                         *)
(* Geometry is kept in original-image pixels.  Pointer coordinates are     *)
(* client (window) pixels.  JavaScript numbers are modelled as integers    *)
(* extended with Infinity, -Infinity and NaN, which the handlers produce   *)
(* when the image is not rendered (its bounding rectangle is all zeros).   *)
(***************************************************************************)
EXTENDS Integers, Sequences, FiniteSets, TLC

VARIABLES
    modalOpen,               \* #full-view-modal is displayed
    redactMode,              \* #full-view-modal carries the class redact-mode
    isBoxDragging,
    startX, startY,
    currentCropBox,          \* {top,left,bottom,right}
    currentRedactions,       \* sequence of {x,y,w,h}
    interactionType,
    activeHandle,
    selectedRedactionIndex,  \* -1 or a 0-based index, as in the source
    cardBounds,              \* card.dataset.bounds of the active card
    cardRedactions,          \* card.dataset.redactions of the active card
    renderedSelected,        \* the redaction block rendered with handles, or -1
    anchorX, anchorY,        \* history: pointer position at the last pointer-down
    anchorRect,              \* history: the target box at the last pointer-down
    clamped,                 \* history: a move step of this drag was clamped
    displaced,               \* history: the target left its place in this drag
    events,                  \* number of handler runs so far
    lastEvent,               \* history: the handler that ran last
    opened,                  \* history: the card's persisted data when the editor opened
    call                     \* one call of an image function: its arguments and result

vars == << modalOpen, redactMode, isBoxDragging, startX, startY, currentCropBox,
           currentRedactions, interactionType, activeHandle,
           selectedRedactionIndex, cardBounds, cardRedactions,
           renderedSelected, anchorX, anchorY, anchorRect, clamped, displaced,
           events, lastEvent, opened, call >>

----------------------------------------------------------------------------
(* Program constants *)

MinBoxSize == 10        \* a resize keeps 10 px to the opposite edge
MinDrawSize == 5        \* a drawn redaction needs more than 5 display px

(* Bounds of the model *)

MaxRedactions == 2      \* redactions in the list
MaxEvents == 3          \* handler runs in one session

(* The pointer moves on a grid whose step is the draw threshold, so that   *)
(* drags of exactly 5 px and of more than 5 px both occur.  The image is   *)
(* rendered two steps wide and high, and each display pixel covers two     *)
(* image pixels, so one pointer step is 10 image pixels: the minimum box   *)
(* size.  The rendered image sits at the top of the window, one pointer    *)
(* step from the window's left border and reaching its right border.       *)
Step == MinDrawSize
DisplayWidth == 2 * Step
DisplayHeight == 2 * Step
NaturalWidth == 2 * DisplayWidth
NaturalHeight == 2 * DisplayHeight
ImgLeft == Step
ImgTop == 0
ClientXs == { x \in 0 .. (ImgLeft + DisplayWidth) : x % Step = 0 }
ClientYs == { y \in 0 .. (ImgTop + DisplayHeight) : y % Step = 0 }

----------------------------------------------------------------------------
(* JavaScript number arithmetic on the integers with Infinity, -Infinity   *)
(* and NaN                                                                 *)

(* The three non-finite values, and JSON's null in place of a number, are  *)
(* integers far outside every finite coordinate the model computes.        *)
PosInf == 2^30
NegInf == 0 - PosInf
NaN == PosInf + 1
JsonNull == PosInf + 2
null == "null"

IsFinite(a) == NegInf < a /\ a < PosInf
IsNaN(a) == a = NaN
IsPosInf(a) == a = PosInf
IsNegInf(a) == a = NegInf

JsNeg(a) ==
    IF IsFinite(a) THEN 0 - a
    ELSE IF IsNaN(a) THEN NaN
    ELSE IF IsPosInf(a) THEN NegInf ELSE PosInf

JsAdd(a, b) ==
    IF IsFinite(a) /\ IsFinite(b) THEN a + b
    ELSE IF IsNaN(a) \/ IsNaN(b) THEN NaN
    ELSE IF IsFinite(a) THEN b
    ELSE IF IsFinite(b) THEN a
    ELSE IF a = b THEN a ELSE NaN

JsSub(a, b) == JsAdd(a, JsNeg(b))

JsSign(a) ==
    IF IsFinite(a) THEN (IF a > 0 THEN 1 ELSE IF a < 0 THEN -1 ELSE 0)
    ELSE IF IsPosInf(a) THEN 1 ELSE -1

JsMul(a, b) ==
    IF IsFinite(a) /\ IsFinite(b) THEN a * b
    ELSE IF IsNaN(a) \/ IsNaN(b) THEN NaN
    ELSE IF JsSign(a) * JsSign(b) = 0 THEN NaN
    ELSE IF JsSign(a) * JsSign(b) > 0 THEN PosInf ELSE NegInf

(* a / b for finite a >= 0 and b >= 0; the sizes used make a finite        *)
(* quotient an integer.                                                    *)
JsDiv(a, b) ==
    IF b # 0 THEN a \div b
    ELSE IF a = 0 THEN NaN ELSE PosInf

JsLess(a, b) ==
    IF IsNaN(a) \/ IsNaN(b) THEN FALSE
    ELSE IF IsFinite(a) /\ IsFinite(b) THEN a < b
    ELSE IF IsNegInf(a) THEN ~IsNegInf(b)
    ELSE IF IsPosInf(b) THEN ~IsPosInf(a)
    ELSE FALSE

MathMin(a, b) ==
    IF IsNaN(a) \/ IsNaN(b) THEN NaN ELSE IF JsLess(b, a) THEN b ELSE a

MathMax(a, b) ==
    IF IsNaN(a) \/ IsNaN(b) THEN NaN ELSE IF JsLess(a, b) THEN b ELSE a

MathAbs(a) ==
    IF IsFinite(a) THEN (IF a < 0 THEN 0 - a ELSE a)
    ELSE IF IsNaN(a) THEN NaN ELSE PosInf

(* JSON.stringify writes a non-finite number as null *)
JsonNumber(a) == IF IsFinite(a) THEN a ELSE JsonNull

JsonCrop(b) ==
    [top |-> JsonNumber(b.top), left |-> JsonNumber(b.left),
     bottom |-> JsonNumber(b.bottom), right |-> JsonNumber(b.right)]

JsonRedaction(r) ==
    [x |-> JsonNumber(r.x), y |-> JsonNumber(r.y),
     w |-> JsonNumber(r.w), h |-> JsonNumber(r.h)]

JsonRedactions(rs) == [i \in 1 .. Len(rs) |-> JsonRedaction(rs[i])]

----------------------------------------------------------------------------
(* JavaScript number arithmetic on finite values that need not be whole:   *)
(* a number is a fraction [num, den] in lowest terms with den > 0, so that *)
(* equal numbers are equal records.  Used where the scale between display  *)
(* and image pixels is not a whole number.                                 *)

RECURSIVE Gcd(_, _)
Gcd(a, b) == IF b = 0 THEN a ELSE Gcd(b, a % b)

Magnitude(a) == IF a < 0 THEN 0 - a ELSE a

Q(n, d) ==
    LET g == Gcd(Magnitude(n), Magnitude(d))
        sign == IF d < 0 THEN -1 ELSE 1
    IN  [num |-> (sign * n) \div g, den |-> (sign * d) \div g]

QInt(n) == [num |-> n, den |-> 1]

QAdd(a, b) == Q(a.num * b.den + b.num * a.den, a.den * b.den)
QSub(a, b) == Q(a.num * b.den - b.num * a.den, a.den * b.den)
(* Common factors are taken out before multiplying, which keeps the        *)
(* products small.                                                         *)
QMul(a, b) ==
    LET g == Gcd(Magnitude(a.num), b.den)
        f == Gcd(Magnitude(b.num), a.den)
    IN  Q((a.num \div g) * (b.num \div f), (a.den \div f) * (b.den \div g))
QDiv(a, b) == QMul(a, Q(b.den, b.num))
QLess(a, b) ==
    LET g == Gcd(a.den, b.den)
    IN  a.num * (b.den \div g) < b.num * (a.den \div g)
QMin(a, b) == IF QLess(b, a) THEN b ELSE a
QMax(a, b) == IF QLess(a, b) THEN b ELSE a
QAbs(a) == [num |-> Magnitude(a.num), den |-> a.den]
QLeq(a, b) == ~QLess(b, a)

(* The whole part of a number that is not negative, as kept by a canvas    *)
(* dimension.                                                              *)
QTrunc(a) == a.num \div a.den

----------------------------------------------------------------------------
(* The rendered image and the elements under the pointer *)

(* img.getBoundingClientRect(): all zeros while the modal is not displayed *)
ImgRect ==
    IF modalOpen
    THEN [left |-> ImgLeft, top |-> ImgTop,
          width |-> DisplayWidth, height |-> DisplayHeight]
    ELSE [left |-> 0, top |-> 0, width |-> 0, height |-> 0]

NoRect == [none |-> TRUE]

Handles == {"nw", "n", "ne", "e", "se", "s", "sw", "w"}

(* activeHandle.includes(c) *)
Includes(h, c) ==
    CASE c = "n" -> h \in {"n", "ne", "nw"}
      [] c = "s" -> h \in {"s", "se", "sw"}
      [] c = "e" -> h \in {"e", "ne", "se"}
      [] c = "w" -> h \in {"w", "nw", "sw"}

(* The crop box as edges, and a redaction as edges *)
Edges(r) ==
    IF "left" \in DOMAIN r
    THEN r
    ELSE [left |-> r.x, top |-> r.y,
          right |-> JsAdd(r.x, r.w), bottom |-> JsAdd(r.y, r.h)]

FiniteBox(e) ==
    IsFinite(e.left) /\ IsFinite(e.top) /\ IsFinite(e.right) /\ IsFinite(e.bottom)

(* Whether display offset d (from the image's left or top) lies on the     *)
(* rendering of image coordinate c: the handle of an edge is grabbed less  *)
(* than one pointer step away from that edge.                              *)
NearEdge(d, c, disp, nat) ==
    LET diff == d * nat - c * disp
    IN  (IF diff < 0 THEN 0 - diff ELSE diff) < Step * nat

Within(d, lo, hi, disp, nat) == lo * disp <= d * nat /\ d * nat <= hi * disp

(* The pointer at client (px,py) is over the part `handle` of the rendered *)
(* box with edges e ("body": anywhere on the box).                         *)
PointerOn(e, handle, px, py) ==
    LET dx == px - ImgLeft
        dy == py - ImgTop
    IN  /\ FiniteBox(e)
        /\ IF handle # "body" /\ Includes(handle, "w")
              THEN NearEdge(dx, e.left, DisplayWidth, NaturalWidth)
           ELSE IF handle # "body" /\ Includes(handle, "e")
              THEN NearEdge(dx, e.right, DisplayWidth, NaturalWidth)
           ELSE Within(dx, e.left, e.right, DisplayWidth, NaturalWidth)
        /\ IF handle # "body" /\ Includes(handle, "n")
              THEN NearEdge(dy, e.top, DisplayHeight, NaturalHeight)
           ELSE IF handle # "body" /\ Includes(handle, "s")
              THEN NearEdge(dy, e.bottom, DisplayHeight, NaturalHeight)
           ELSE Within(dy, e.top, e.bottom, DisplayHeight, NaturalHeight)

(* The pointer is over the redaction canvas, which covers the image, and   *)
(* over none of the redaction blocks rendered above it.                    *)
PointerOnCanvas(px, py) ==
    /\ ImgLeft <= px /\ px <= ImgLeft + DisplayWidth
    /\ ImgTop <= py /\ py <= ImgTop + DisplayHeight
    /\ \A i \in 1 .. Len(currentRedactions) :
          ~PointerOn(Edges(currentRedactions[i]), "body", px, py)

----------------------------------------------------------------------------
(* updateRect: the box after one drag step by (dx,dy) image pixels *)

EndsWith(t, suffix) ==
    CASE suffix = "move" -> t \in {"crop-move", "redaction-move"}
      [] suffix = "resize" -> t \in {"crop-resize", "redaction-resize"}

StartsWith(t, prefix) ==
    CASE prefix = "crop" -> t \in {"crop-move", "crop-resize"}
      [] prefix = "redaction" -> t \in {"redaction-move", "redaction-resize"}

(* A move that shifts the right and bottom edges by the pointer delta      *)
(* instead of re-deriving them from the clamped position.                  *)
MoveCropEdgewise(b, dx, dy, maxW, maxH) ==
    [left |-> MathMax(0, JsAdd(b.left, dx)), top |-> MathMax(0, JsAdd(b.top, dy)),
     right |-> MathMin(maxW, JsAdd(b.right, dx)),
     bottom |-> MathMin(maxH, JsAdd(b.bottom, dy))]

MoveCrop(b, dx, dy, maxW, maxH) ==
    LET width == JsSub(b.right, b.left)
        height == JsSub(b.bottom, b.top)
        newL == MathMax(0, MathMin(JsAdd(b.left, dx), JsSub(maxW, width)))
        newT == MathMax(0, MathMin(JsAdd(b.top, dy), JsSub(maxH, height)))
    IN  [left |-> newL, top |-> newT,
         right |-> JsAdd(newL, width), bottom |-> JsAdd(newT, height)]

MoveRedaction(r, dx, dy, maxW, maxH) ==
    LET newX == MathMax(0, MathMin(JsAdd(r.x, dx), JsSub(maxW, r.w)))
        newY == MathMax(0, MathMin(JsAdd(r.y, dy), JsSub(maxH, r.h)))
    IN  [r EXCEPT !.x = newX, !.y = newY]

(* A crop resize without the final clamp to the image *)
ResizeCropUnclamped(b, handle, dx, dy, maxW, maxH) ==
    LET b1 == IF Includes(handle, "n")
              THEN [b EXCEPT !.top = MathMin(JsAdd(b.top, dy), JsSub(b.bottom, MinBoxSize))]
              ELSE b
        b2 == IF Includes(handle, "s")
              THEN [b1 EXCEPT !.bottom = MathMax(JsAdd(b1.bottom, dy), JsAdd(b1.top, MinBoxSize))]
              ELSE b1
        b3 == IF Includes(handle, "w")
              THEN [b2 EXCEPT !.left = MathMin(JsAdd(b2.left, dx), JsSub(b2.right, MinBoxSize))]
              ELSE b2
    IN  IF Includes(handle, "e")
        THEN [b3 EXCEPT !.right = MathMax(JsAdd(b3.right, dx), JsAdd(b3.left, MinBoxSize))]
        ELSE b3

(* A crop resize that clamps to the image but keeps no minimum size *)
ResizeCropNoMinimum(b, handle, dx, dy, maxW, maxH) ==
    LET t == IF Includes(handle, "n") THEN JsAdd(b.top, dy) ELSE b.top
        bm == IF Includes(handle, "s") THEN JsAdd(b.bottom, dy) ELSE b.bottom
        l == IF Includes(handle, "w") THEN JsAdd(b.left, dx) ELSE b.left
        r == IF Includes(handle, "e") THEN JsAdd(b.right, dx) ELSE b.right
    IN  [left |-> MathMax(0, l), top |-> MathMax(0, t),
         right |-> MathMin(maxW, r), bottom |-> MathMin(maxH, bm)]

ResizeCrop(b, handle, dx, dy, maxW, maxH) ==
    LET b1 == IF Includes(handle, "n")
              THEN [b EXCEPT !.top = MathMin(JsAdd(b.top, dy), JsSub(b.bottom, MinBoxSize))]
              ELSE b
        b2 == IF Includes(handle, "s")
              THEN [b1 EXCEPT !.bottom = MathMax(JsAdd(b1.bottom, dy), JsAdd(b1.top, MinBoxSize))]
              ELSE b1
        b3 == IF Includes(handle, "w")
              THEN [b2 EXCEPT !.left = MathMin(JsAdd(b2.left, dx), JsSub(b2.right, MinBoxSize))]
              ELSE b2
        b4 == IF Includes(handle, "e")
              THEN [b3 EXCEPT !.right = MathMax(JsAdd(b3.right, dx), JsAdd(b3.left, MinBoxSize))]
              ELSE b3
    IN  [left |-> MathMax(0, b4.left), top |-> MathMax(0, b4.top),
         right |-> MathMin(maxW, b4.right), bottom |-> MathMin(maxH, b4.bottom)]

(* A redaction resize whose n and w handles move the origin and keep the   *)
(* old height and width.                                                   *)
ResizeRedactionOriginOnly(r, handle, dx, dy) ==
    LET r1 == IF Includes(handle, "n")
              THEN [r EXCEPT !.y = MathMin(JsAdd(r.y, dy),
                                           JsSub(JsAdd(r.y, r.h), MinBoxSize))]
              ELSE r
        r2 == IF Includes(handle, "s")
              THEN [r1 EXCEPT !.h = MathMax(JsAdd(r1.h, dy), MinBoxSize)]
              ELSE r1
        r3 == IF Includes(handle, "w")
              THEN [r2 EXCEPT !.x = MathMin(JsAdd(r2.x, dx),
                                            JsSub(JsAdd(r2.x, r2.w), MinBoxSize))]
              ELSE r2
    IN  IF Includes(handle, "e")
        THEN [r3 EXCEPT !.w = MathMax(JsAdd(r3.w, dx), MinBoxSize)]
        ELSE r3

ResizeRedaction(r, handle, dx, dy) ==
    LET r1 == IF Includes(handle, "n")
              THEN LET oldBottom == JsAdd(r.y, r.h)
                       newY == MathMin(JsAdd(r.y, dy), JsSub(oldBottom, MinBoxSize))
                   IN  [r EXCEPT !.y = newY, !.h = JsSub(oldBottom, newY)]
              ELSE r
        r2 == IF Includes(handle, "s")
              THEN [r1 EXCEPT !.h = MathMax(JsAdd(r1.h, dy), MinBoxSize)]
              ELSE r1
        r3 == IF Includes(handle, "w")
              THEN LET oldRight == JsAdd(r2.x, r2.w)
                       newX == MathMin(JsAdd(r2.x, dx), JsSub(oldRight, MinBoxSize))
                   IN  [r2 EXCEPT !.x = newX, !.w = JsSub(oldRight, newX)]
              ELSE r2
    IN  IF Includes(handle, "e")
        THEN [r3 EXCEPT !.w = MathMax(JsAdd(r3.w, dx), MinBoxSize)]
        ELSE r3

UpdateRect(rectObj, dx, dy, maxW, maxH) ==
    IF EndsWith(interactionType, "move")
    THEN IF "left" \in DOMAIN rectObj
         THEN MoveCrop(rectObj, dx, dy, maxW, maxH)
         ELSE MoveRedaction(rectObj, dx, dy, maxW, maxH)
    ELSE IF EndsWith(interactionType, "resize")
    THEN IF "left" \in DOMAIN rectObj
         THEN ResizeCrop(rectObj, activeHandle, dx, dy, maxW, maxH)
         ELSE ResizeRedaction(rectObj, activeHandle, dx, dy)
    ELSE rectObj

----------------------------------------------------------------------------
(* Pointer-down: startBoxInteraction *)

NoCall == [fn |-> "none"]

(* One run of a listener of the editor; the editor calls no image function *)
Ran(handler) ==
    /\ events < MaxEvents /\ events' = events + 1 /\ lastEvent' = handler
    /\ UNCHANGED << opened, call >>

(* type is "crop", "redaction" or "draw-redaction"; target is a handle or  *)
(* "body", the element the event was dispatched to.                        *)
StartBoxInteraction(px, py, type, index, target) ==
    /\ isBoxDragging' = TRUE
    /\ startX' = px
    /\ startY' = py
    /\ selectedRedactionIndex' = index
    /\ IF type = "draw-redaction"
       THEN /\ interactionType' = "draw-redaction"
            /\ UNCHANGED activeHandle
       ELSE IF target \in Handles
       THEN /\ interactionType' = (IF type = "crop" THEN "crop-resize" ELSE "redaction-resize")
            /\ activeHandle' = target
       ELSE /\ interactionType' = (IF type = "crop" THEN "crop-move" ELSE "redaction-move")
            /\ UNCHANGED activeHandle

(* mousedown on the crop box or on one of its eight handles *)
MouseDownCropBox(px, py, target) ==
    /\ modalOpen
    /\ PointerOn(currentCropBox, target, px, py)
    /\ StartBoxInteraction(px, py, "crop", -1, target)
    /\ UNCHANGED << modalOpen, redactMode, currentCropBox, currentRedactions,
                    cardBounds, cardRedactions, renderedSelected >>

(* mousedown on redaction block i; only the selected block shows handles *)
MouseDownRedaction(i, px, py, target) ==
    /\ modalOpen
    /\ redactMode
    /\ i \in 0 .. (Len(currentRedactions) - 1)
    /\ target \in Handles => renderedSelected = i
    /\ PointerOn(Edges(currentRedactions[i + 1]), target, px, py)
    /\ StartBoxInteraction(px, py, "redaction", i, target)
    /\ renderedSelected' = i
    /\ UNCHANGED << modalOpen, redactMode, currentCropBox, currentRedactions,
                    cardBounds, cardRedactions >>

(* mousedown on the redaction canvas, shown in redact mode *)
MouseDownCanvas(px, py) ==
    /\ modalOpen
    /\ redactMode
    /\ Len(currentRedactions) < MaxRedactions
    /\ PointerOnCanvas(px, py)
    /\ StartBoxInteraction(px, py, "draw-redaction", -1, "body")
    /\ UNCHANGED << modalOpen, redactMode, currentCropBox, currentRedactions,
                    cardBounds, cardRedactions, renderedSelected >>

----------------------------------------------------------------------------
(* The window's mousemove and mouseup listeners *)

(* A drag that keeps measuring the pointer from where it went down *)
KeepStart(px, py) == UNCHANGED << startX, startY >>

(* The end of the mousemove listener: the next delta is measured from the  *)
(* pointer position of this event, except while drawing.                   *)
RestartDelta(px, py) ==
    IF interactionType # "draw-redaction"
    THEN startX' = px /\ startY' = py
    ELSE UNCHANGED << startX, startY >>

(* A mousemove whose redaction drag applies the step to every redaction *)
MouseMoveEvery(px, py) ==
    /\ isBoxDragging
    /\ LET deltaX == JsMul(JsSub(px, startX), JsDiv(NaturalWidth, ImgRect.width))
           deltaY == JsMul(JsSub(py, startY), JsDiv(NaturalHeight, ImgRect.height))
           list == [k \in 1 .. Len(currentRedactions) |->
                       UpdateRect(currentRedactions[k], deltaX, deltaY,
                                  NaturalWidth, NaturalHeight)]
       IN  IF StartsWith(interactionType, "redaction")
           THEN /\ currentRedactions' = list
                /\ cardRedactions' = JsonRedactions(list)
           ELSE UNCHANGED << currentRedactions, cardRedactions >>
    /\ RestartDelta(px, py)
    /\ UNCHANGED << modalOpen, redactMode, isBoxDragging, interactionType,
                    activeHandle, selectedRedactionIndex, currentCropBox,
                    cardBounds, renderedSelected >>

MouseMove(px, py) ==
    IF ~isBoxDragging
    THEN UNCHANGED << modalOpen, redactMode, isBoxDragging, startX, startY,
                      currentCropBox, currentRedactions, interactionType,
                      activeHandle, selectedRedactionIndex, cardBounds,
                      cardRedactions, renderedSelected >>
    ELSE
    /\ LET rect == ImgRect
           scaleX == JsDiv(NaturalWidth, rect.width)
           scaleY == JsDiv(NaturalHeight, rect.height)
           deltaX == JsMul(JsSub(px, startX), scaleX)
           deltaY == JsMul(JsSub(py, startY), scaleY)
       IN  IF StartsWith(interactionType, "crop")
           THEN LET box == UpdateRect(currentCropBox, deltaX, deltaY,
                                      NaturalWidth, NaturalHeight)
                IN  /\ currentCropBox' = box
                    /\ cardBounds' = JsonCrop(box)
                    /\ UNCHANGED << currentRedactions, cardRedactions, renderedSelected >>
           ELSE IF StartsWith(interactionType, "redaction") /\ selectedRedactionIndex # -1
           THEN LET i == selectedRedactionIndex + 1
                    r == UpdateRect(currentRedactions[i], deltaX, deltaY,
                                    NaturalWidth, NaturalHeight)
                    list == [currentRedactions EXCEPT ![i] = r]
                IN  /\ currentRedactions' = list
                    /\ renderedSelected' = selectedRedactionIndex
                    /\ cardRedactions' = JsonRedactions(list)
                    /\ UNCHANGED << currentCropBox, cardBounds >>
           ELSE UNCHANGED << currentCropBox, cardBounds, currentRedactions,
                             cardRedactions, renderedSelected >>
    /\ RestartDelta(px, py)
    /\ UNCHANGED << modalOpen, redactMode, isBoxDragging, interactionType,
                    activeHandle, selectedRedactionIndex >>

(* The redaction a draw from (startX,startY) to (endX,endY) commits *)
NewRedaction(endX, endY) ==
    LET rect == ImgRect
        scaleX == JsDiv(NaturalWidth, rect.width)
        scaleY == JsDiv(NaturalHeight, rect.height)
        x == (IF startX < endX THEN startX ELSE endX) - rect.left
        y == (IF startY < endY THEN startY ELSE endY) - rect.top
        w == MathAbs(endX - startX)
        h == MathAbs(endY - startY)
    IN  [x |-> JsMul(x, scaleX), y |-> JsMul(y, scaleY),
         w |-> JsMul(w, scaleX), h |-> JsMul(h, scaleY)]

(* A size test that also accepts a drag of exactly the threshold *)
DrawCommitsAtThreshold(endX, endY) ==
    MathAbs(endX - startX) >= MinDrawSize /\ MathAbs(endY - startY) >= MinDrawSize

DrawCommits(endX, endY) ==
    MathAbs(endX - startX) > MinDrawSize /\ MathAbs(endY - startY) > MinDrawSize

(* An end of interaction that forgets the interaction type and handle *)
EndDragOnly ==
    isBoxDragging' = FALSE /\ UNCHANGED << interactionType, activeHandle >>

(* The end of the mouseup listener *)
EndInteraction ==
    /\ isBoxDragging' = FALSE
    /\ interactionType' = null
    /\ activeHandle' = null

(* A mouseup that commits a draw to the list and not to the card *)
MouseUpUnsaved(px, py) ==
    /\ IF interactionType = "draw-redaction" /\ isBoxDragging /\ DrawCommits(px, py)
       THEN /\ currentRedactions' = Append(currentRedactions, NewRedaction(px, py))
            /\ renderedSelected' = selectedRedactionIndex
            /\ UNCHANGED cardRedactions
       ELSE UNCHANGED << currentRedactions, renderedSelected, cardRedactions >>
    /\ EndInteraction
    /\ UNCHANGED << modalOpen, redactMode, startX, startY, currentCropBox,
                    selectedRedactionIndex, cardBounds >>

MouseUp(px, py) ==
    /\ IF interactionType = "draw-redaction" /\ isBoxDragging /\ DrawCommits(px, py)
       THEN LET list == Append(currentRedactions, NewRedaction(px, py))
            IN  /\ currentRedactions' = list
                /\ renderedSelected' = selectedRedactionIndex
                /\ cardRedactions' = JsonRedactions(list)
       ELSE UNCHANGED << currentRedactions, renderedSelected, cardRedactions >>
    /\ EndInteraction
    /\ UNCHANGED << modalOpen, redactMode, startX, startY, currentCropBox,
                    selectedRedactionIndex, cardBounds >>

----------------------------------------------------------------------------
(* Toolbar commands and the modal listeners of src/js/app.js *)

(* A delete that drops the last redaction, whichever is selected *)
DeleteLastRedaction ==
    /\ modalOpen
    /\ redactMode
    /\ IF selectedRedactionIndex = -1
       THEN UNCHANGED << currentRedactions, selectedRedactionIndex,
                         renderedSelected, cardRedactions >>
       ELSE LET list == SubSeq(currentRedactions, 1, Len(currentRedactions) - 1)
            IN  /\ currentRedactions' = list
                /\ selectedRedactionIndex' = -1
                /\ renderedSelected' = -1
                /\ cardRedactions' = JsonRedactions(list)
    /\ UNCHANGED << modalOpen, redactMode, isBoxDragging, startX, startY,
                    currentCropBox, interactionType, activeHandle, cardBounds >>

DeleteSelectedRedaction ==
    /\ modalOpen
    /\ redactMode
    /\ IF selectedRedactionIndex = -1
       THEN UNCHANGED << currentRedactions, selectedRedactionIndex,
                         renderedSelected, cardRedactions >>
       ELSE LET i == selectedRedactionIndex + 1
                list == [k \in 1 .. (Len(currentRedactions) - 1) |->
                            IF k < i THEN currentRedactions[k]
                                     ELSE currentRedactions[k + 1]]
            IN  /\ currentRedactions' = list
                /\ selectedRedactionIndex' = -1
                /\ renderedSelected' = -1
                /\ cardRedactions' = JsonRedactions(list)
    /\ UNCHANGED << modalOpen, redactMode, isBoxDragging, startX, startY,
                    currentCropBox, interactionType, activeHandle, cardBounds >>

(* A clear that empties the list and keeps the selection *)
ClearListOnly ==
    /\ modalOpen
    /\ redactMode
    /\ currentRedactions' = << >>
    /\ cardRedactions' = JsonRedactions(<< >>)
    /\ UNCHANGED << modalOpen, redactMode, isBoxDragging, startX, startY,
                    currentCropBox, interactionType, activeHandle, cardBounds,
                    selectedRedactionIndex, renderedSelected >>

ClearAllRedactions ==
    /\ modalOpen
    /\ redactMode
    /\ currentRedactions' = << >>
    /\ selectedRedactionIndex' = -1
    /\ renderedSelected' = -1
    /\ cardRedactions' = JsonRedactions(<< >>)
    /\ UNCHANGED << modalOpen, redactMode, isBoxDragging, startX, startY,
                    currentCropBox, interactionType, activeHandle, cardBounds >>

ModeCrop ==
    /\ modalOpen
    /\ redactMode' = FALSE
    /\ UNCHANGED << modalOpen, isBoxDragging, startX, startY, currentCropBox,
                    currentRedactions, interactionType, activeHandle,
                    selectedRedactionIndex, cardBounds, cardRedactions,
                    renderedSelected >>

ModeRedact ==
    /\ modalOpen
    /\ redactMode' = TRUE
    /\ UNCHANGED << modalOpen, isBoxDragging, startX, startY, currentCropBox,
                    currentRedactions, interactionType, activeHandle,
                    selectedRedactionIndex, cardBounds, cardRedactions,
                    renderedSelected >>

(* The dismiss button, or a click on the backdrop: the modal is hidden and *)
(* nothing else is touched.                                                *)
DismissModal ==
    /\ modalOpen
    /\ modalOpen' = FALSE
    /\ UNCHANGED << redactMode, isBoxDragging, startX, startY, currentCropBox,
                    currentRedactions, interactionType, activeHandle,
                    selectedRedactionIndex, cardBounds, cardRedactions,
                    renderedSelected >>

----------------------------------------------------------------------------
(* The editor as it opens on a card: setupCroppingUI copies the card's     *)
(* saved crop, setActiveRedactionCard takes the card's saved redactions,   *)
(* and the modal keeps the mode class it had when it was last closed.  The *)
(* saved crop lies inside the image and is at least 10 px wide and high;   *)
(* a saved redaction lies inside the image.                                *)

GridXs == { x \in 0 .. NaturalWidth : x % MinBoxSize = 0 }
GridYs == { y \in 0 .. NaturalHeight : y % MinBoxSize = 0 }

ValidCrop(b) ==
    /\ 0 <= b.left /\ b.left + MinBoxSize <= b.right /\ b.right <= NaturalWidth
    /\ 0 <= b.top /\ b.top + MinBoxSize <= b.bottom /\ b.bottom <= NaturalHeight

SavedCrops ==
    { b \in [top : GridYs, left : GridXs, bottom : GridYs, right : GridXs] :
        ValidCrop(b) }

FullImage ==
    [top |-> 0, left |-> 0, bottom |-> NaturalHeight, right |-> NaturalWidth]

ValidRedaction(r) ==
    /\ r.w > 0 /\ r.h > 0 /\ r.x >= 0 /\ r.y >= 0
    /\ r.x + r.w <= NaturalWidth /\ r.y + r.h <= NaturalHeight

SavedRedactions ==
    { [x |-> 0, y |-> 0, w |-> MinBoxSize, h |-> MinBoxSize],
      [x |-> NaturalWidth - MinBoxSize, y |-> NaturalHeight - MinBoxSize,
       w |-> MinBoxSize, h |-> MinBoxSize],
      [x |-> 0, y |-> 0, w |-> NaturalWidth, h |-> NaturalHeight] }

(* Every saved crop with no redaction and the modal in crop mode, or the   *)
(* full image with one of the saved redactions and the modal in redact     *)
(* mode.                                                                   *)
SavedGeometry ==
    { << b, << >>, FALSE >> : b \in SavedCrops } \cup
    { << FullImage, << r >>, TRUE >> : r \in SavedRedactions }

EditorOpensOn(geometry) ==
    /\ modalOpen = TRUE
    /\ isBoxDragging = FALSE
    /\ startX = NaN          \* undefined: arithmetic on it gives NaN
    /\ startY = NaN
    /\ \E g \in geometry :
          currentCropBox = g[1] /\ currentRedactions = g[2] /\ redactMode = g[3]
    /\ interactionType = null
    /\ activeHandle = null
    /\ selectedRedactionIndex = -1
    /\ cardBounds = JsonCrop(currentCropBox)
    /\ cardRedactions = JsonRedactions(currentRedactions)
    /\ renderedSelected = -1
    /\ anchorX = NaN
    /\ anchorY = NaN
    /\ anchorRect = NoRect
    /\ clamped = FALSE
    /\ displaced = FALSE
    /\ events = 0
    /\ lastEvent = "open"
    /\ call = NoCall

EditorOpens == EditorOpensOn(SavedGeometry)

Init == EditorOpens /\ opened = NoRect

(* Spec: the editor with every handler, for at most MaxEvents handler     *)
(* runs; the history variables are not kept.                               *)
NoHistory == UNCHANGED << anchorX, anchorY, anchorRect, clamped, displaced >>

Next ==
    \/ \E px \in ClientXs, py \in ClientYs, target \in Handles \cup {"body"} :
          MouseDownCropBox(px, py, target) /\ Ran("mousedown") /\ NoHistory
    \/ \E i \in 0 .. (MaxRedactions - 1), px \in ClientXs, py \in ClientYs,
          target \in Handles \cup {"body"} :
          MouseDownRedaction(i, px, py, target) /\ Ran("mousedown") /\ NoHistory
    \/ \E px \in ClientXs, py \in ClientYs :
          MouseDownCanvas(px, py) /\ Ran("mousedown") /\ NoHistory
    \/ \E px \in ClientXs, py \in ClientYs :
          MouseMove(px, py) /\ Ran("mousemove") /\ NoHistory
    \/ \E px \in ClientXs, py \in ClientYs :
          MouseUp(px, py) /\ Ran("mouseup") /\ NoHistory
    \/ DeleteSelectedRedaction /\ Ran("delete") /\ NoHistory
    \/ ClearAllRedactions /\ Ran("clear") /\ NoHistory
    \/ ModeCrop /\ Ran("mode-crop") /\ NoHistory
    \/ ModeRedact /\ Ran("mode-redact") /\ NoHistory
    \/ DismissModal /\ Ran("dismiss") /\ NoHistory

Spec == Init /\ [][Next]_vars

(* SpecDrag: the same handlers, with the history of the current drag kept: *)
(* where the pointer went down, the target box at that moment, and whether *)
(* a move step since then was stopped at an image border.                  *)
Anchor(px, py, box) ==
    /\ anchorX' = px
    /\ anchorY' = py
    /\ anchorRect' = box
    /\ clamped' = FALSE
    /\ displaced' = FALSE

(* The drag target before and after a step, NoRect when there is none *)
Target ==
    IF StartsWith(interactionType, "crop") THEN currentCropBox
    ELSE IF /\ StartsWith(interactionType, "redaction")
            /\ selectedRedactionIndex \in 0 .. (Len(currentRedactions) - 1)
         THEN currentRedactions[selectedRedactionIndex + 1]
    ELSE NoRect

Position(box) ==
    IF "left" \in DOMAIN box THEN << box.left, box.top >>
    ELSE IF "x" \in DOMAIN box THEN << box.x, box.y >>
    ELSE << >>

(* Where the pointer delta alone would put the target of a move step *)
Unclamped(box, px, py) ==
    LET dX == JsMul(JsSub(px, startX), JsDiv(NaturalWidth, ImgRect.width))
        dY == JsMul(JsSub(py, startY), JsDiv(NaturalHeight, ImgRect.height))
    IN  IF "left" \in DOMAIN box THEN << JsAdd(box.left, dX), JsAdd(box.top, dY) >>
        ELSE IF "x" \in DOMAIN box THEN << JsAdd(box.x, dX), JsAdd(box.y, dY) >>
        ELSE << >>

TrackMove(px, py) ==
    /\ clamped' = (clamped \/ (/\ EndsWith(interactionType, "move")
                               /\ Position(Target)' # Unclamped(Target, px, py)))
    /\ displaced' = (displaced \/ (/\ EndsWith(interactionType, "move")
                                   /\ Position(Target)' # Position(anchorRect)))
    /\ UNCHANGED << anchorX, anchorY, anchorRect >>

NextDrag ==
    \/ \E px \in ClientXs, py \in ClientYs, target \in Handles \cup {"body"} :
          MouseDownCropBox(px, py, target) /\ Ran("mousedown") /\ Anchor(px, py, currentCropBox)
    \/ \E i \in 0 .. (MaxRedactions - 1), px \in ClientXs, py \in ClientYs,
          target \in Handles \cup {"body"} :
          /\ MouseDownRedaction(i, px, py, target) /\ Ran("mousedown")
          /\ Anchor(px, py, currentRedactions[i + 1])
    \/ \E px \in ClientXs, py \in ClientYs :
          MouseMove(px, py) /\ Ran("mousemove") /\ TrackMove(px, py)
    \/ \E px \in ClientXs, py \in ClientYs :
          MouseUp(px, py) /\ Ran("mouseup") /\ NoHistory

SpecDrag == Init /\ [][NextDrag]_vars

(* SpecCancel: the editor with every handler, remembering what the card   *)
(* persisted when the editor opened.                                       *)
InitCancel ==
    /\ EditorOpens
    /\ opened = [bounds |-> cardBounds, redactions |-> cardRedactions]

SpecCancel == InitCancel /\ [][Next]_vars

(* SpecList: the toolbar commands on every list of up to                  *)
(* MaxRedactions + 1 saved redactions with every selection, in redact mode *)
(* with no drag in progress.                                               *)
SavedLists ==
    UNION { [1 .. n -> SavedRedactions] : n \in 0 .. (MaxRedactions + 1) }

InitList ==
    /\ modalOpen = TRUE
    /\ redactMode = TRUE
    /\ isBoxDragging = FALSE
    /\ startX = NaN
    /\ startY = NaN
    /\ currentCropBox = FullImage
    /\ currentRedactions \in SavedLists
    /\ interactionType = null
    /\ activeHandle = null
    /\ selectedRedactionIndex \in -1 .. (Len(currentRedactions) - 1)
    /\ cardBounds = JsonCrop(currentCropBox)
    /\ cardRedactions = JsonRedactions(currentRedactions)
    /\ renderedSelected = selectedRedactionIndex
    /\ anchorX = NaN
    /\ anchorY = NaN
    /\ anchorRect = NoRect
    /\ clamped = FALSE
    /\ displaced = FALSE
    /\ events = 0
    /\ lastEvent = "open"
    /\ opened = NoRect
    /\ call = NoCall

NextList ==
    \/ DeleteSelectedRedaction /\ Ran("delete") /\ NoHistory
    \/ ClearAllRedactions /\ Ran("clear") /\ NoHistory

SpecList == InitList /\ [][NextList]_vars

----------------------------------------------------------------------------
(* The image functions and the conversions between display and image       *)
(* pixels, each applied to arguments drawn from bounded sets.  The editor  *)
(* is not open: its state is the module state of modal.js as loaded.       *)

editor == << modalOpen, redactMode, isBoxDragging, startX, startY,
             currentCropBox, currentRedactions, interactionType, activeHandle,
             selectedRedactionIndex, cardBounds, cardRedactions,
             renderedSelected, anchorX, anchorY, anchorRect, clamped,
             displaced, events, lastEvent, opened >>

EditorNotOpen ==
    /\ modalOpen = FALSE
    /\ redactMode = FALSE
    /\ isBoxDragging = FALSE
    /\ startX = NaN
    /\ startY = NaN
    /\ currentCropBox = NoRect
    /\ currentRedactions = << >>
    /\ interactionType = null
    /\ activeHandle = null
    /\ selectedRedactionIndex = -1
    /\ cardBounds = NoRect
    /\ cardRedactions = << >>
    /\ renderedSelected = -1
    /\ anchorX = NaN
    /\ anchorY = NaN
    /\ anchorRect = NoRect
    /\ clamped = FALSE
    /\ displaced = FALSE
    /\ events = 0
    /\ lastEvent = "load"
    /\ opened = NoRect

(* SpecScale: one redaction drawn on the image rendered in one rectangle,  *)
(* then rendered again, with the rendered size of the image changing in    *)
(* between.                                                                *)

(* The mouseup conversion of the rectangle drawn from (sx,sy) to (ex,ey),  *)
(* client pixels, into image pixels, for any rendered rectangle.           *)
DisplayToImage(sx, sy, ex, ey, rect, natW, natH) ==
    LET scaleX == QDiv(QInt(natW), QInt(rect.width))
        scaleY == QDiv(QInt(natH), QInt(rect.height))
        x == (IF sx < ex THEN sx ELSE ex) - rect.left
        y == (IF sy < ey THEN sy ELSE ey) - rect.top
        w == MathAbs(ex - sx)
        h == MathAbs(ey - sy)
    IN  [x |-> QMul(QInt(x), scaleX), y |-> QMul(QInt(y), scaleY),
         w |-> QMul(QInt(w), scaleX), h |-> QMul(QInt(h), scaleY)]

Drawable(sx, sy, ex, ey) ==
    MathAbs(ex - sx) > MinDrawSize /\ MathAbs(ey - sy) > MinDrawSize

(* A rendering that scales by natural / rendered size *)
RenderAtImageScale(r, rect, natW, natH) ==
    LET scaleX == QDiv(QInt(natW), QInt(rect.width))
        scaleY == QDiv(QInt(natH), QInt(rect.height))
    IN  [left |-> QMul(r.x, scaleX), top |-> QMul(r.y, scaleY),
         width |-> QMul(r.w, scaleX), height |-> QMul(r.h, scaleY)]

(* renderRedactions: the style of the block of redaction r *)
RenderRedaction(r, rect, natW, natH) ==
    LET scaleX == QDiv(QInt(rect.width), QInt(natW))
        scaleY == QDiv(QInt(rect.height), QInt(natH))
    IN  [left |-> QMul(r.x, scaleX), top |-> QMul(r.y, scaleY),
         width |-> QMul(r.w, scaleX), height |-> QMul(r.h, scaleY)]

(* Rendered rectangles of the 20 x 20 image: half, full and one and a half *)
(* size, at the window's left border or one pointer step from it.          *)
ViewRects ==
    { [left |-> l, top |-> 0, width |-> w, height |-> w] :
        l \in {0, Step}, w \in {DisplayWidth, NaturalWidth, DisplayWidth + NaturalWidth} }

DrawPoints == {0, Step, 3 * Step, 6 * Step}

InitScale ==
    /\ EditorNotOpen
    /\ \E rect \in ViewRects, sx \in DrawPoints, sy \in DrawPoints,
          ex \in DrawPoints, ey \in DrawPoints :
          call = [fn |-> "scale", rect |-> rect, from |-> << sx, sy >>,
                  to |-> << ex, ey >>, drawnAt |-> NoRect, stored |-> NoRect,
                  shownAt |-> NoRect, shown |-> NoRect]

ScaleDraw ==
    /\ call.stored = NoRect
    /\ Drawable(call.from[1], call.from[2], call.to[1], call.to[2])
    /\ call' = [call EXCEPT
                  !.stored = DisplayToImage(call.from[1], call.from[2],
                                            call.to[1], call.to[2], call.rect,
                                            NaturalWidth, NaturalHeight),
                  !.drawnAt = call.rect]
    /\ UNCHANGED editor

ScaleRender ==
    /\ call.stored # NoRect
    /\ call' = [call EXCEPT
                  !.shown = RenderRedaction(call.stored, call.rect,
                                            NaturalWidth, NaturalHeight),
                  !.shownAt = call.rect]
    /\ UNCHANGED editor

(* The rendered size or place of the image changes; no listener runs *)
ScaleResize ==
    /\ call.stored # NoRect
    /\ \E rect \in ViewRects \ {call.rect} : call' = [call EXCEPT !.rect = rect]
    /\ UNCHANGED editor

NextScale == ScaleDraw \/ ScaleRender \/ ScaleResize

SpecScale == InitScale /\ [][NextScale]_vars

(* SpecBounds: findContentBounds on every buffer of 1 to 3 columns and     *)
(* rows, in which every subset of the pixels is content, with one colour   *)
(* for the background pixels and one for the content pixels.               *)

ContentThreshold == 235

(* ImageData: width, height and data, four bytes R, G, B, A per pixel in   *)
(* row order, indexed from 0.                                              *)
ImageData(width, height, colour) ==
    [width |-> width, height |-> height,
     data |-> [i \in 0 .. (width * height * 4 - 1) |->
                 colour[<< (i \div 4) % width, (i \div 4) \div width >>][(i % 4) + 1]]]

(* A test that also takes a channel equal to the threshold for content *)
IsContentAtThreshold(img, x, y) ==
    LET idx == (y * img.width + x) * 4
    IN  /\ idx + 2 \in DOMAIN img.data
        /\ \/ img.data[idx] <= ContentThreshold
           \/ img.data[idx + 1] <= ContentThreshold
           \/ img.data[idx + 2] <= ContentThreshold

(* isContent; a read past the end of data gives undefined, and             *)
(* undefined < 235 is false.                                               *)
IsContent(img, x, y) ==
    LET idx == (y * img.width + x) * 4
    IN  /\ idx + 2 \in DOMAIN img.data
        /\ \/ img.data[idx] < ContentThreshold
           \/ img.data[idx + 1] < ContentThreshold
           \/ img.data[idx + 2] < ContentThreshold

RowHasContent(img, y) == \E x \in 0 .. (img.width - 1) : IsContent(img, x, y)

ColumnHasContent(img, x, top, bottom) == \E y \in top .. bottom : IsContent(img, x, y)

(* Scan from top: the first row with content, else the initial 0 *)
RECURSIVE ScanTopFrom(_, _)
ScanTopFrom(img, y) ==
    IF y >= img.height THEN 0
    ELSE IF RowHasContent(img, y) THEN y
    ELSE ScanTopFrom(img, y + 1)

ScanTop(img) == ScanTopFrom(img, 0)

(* A scan from the bottom whose fallback is the last row index *)
ScanBottomInclusive(img, top) ==
    IF \E y \in top .. (img.height - 1) : RowHasContent(img, y)
    THEN CHOOSE y \in top .. (img.height - 1) :
            /\ RowHasContent(img, y)
            /\ \A z \in (y + 1) .. (img.height - 1) : ~RowHasContent(img, z)
    ELSE img.height - 1

(* Scan from bottom: the last row with content not above top, else the     *)
(* initial height.                                                         *)
RECURSIVE ScanBottomFrom(_, _, _)
ScanBottomFrom(img, top, y) ==
    IF y < top THEN img.height
    ELSE IF RowHasContent(img, y) THEN y
    ELSE ScanBottomFrom(img, top, y - 1)

ScanBottom(img, top) == ScanBottomFrom(img, top, img.height - 1)

(* Scan from left over the rows top .. bottom, else the initial 0 *)
RECURSIVE ScanLeftFrom(_, _, _, _)
ScanLeftFrom(img, top, bottom, x) ==
    IF x >= img.width THEN 0
    ELSE IF ColumnHasContent(img, x, top, bottom) THEN x
    ELSE ScanLeftFrom(img, top, bottom, x + 1)

ScanLeft(img, top, bottom) == ScanLeftFrom(img, top, bottom, 0)

(* Scan from right down to left, else the initial width *)
RECURSIVE ScanRightFrom(_, _, _, _, _)
ScanRightFrom(img, top, bottom, left, x) ==
    IF x < left THEN img.width
    ELSE IF ColumnHasContent(img, x, top, bottom) THEN x
    ELSE ScanRightFrom(img, top, bottom, left, x - 1)

ScanRight(img, top, bottom, left) ==
    ScanRightFrom(img, top, bottom, left, img.width - 1)

FindContentBounds(img) ==
    LET top == ScanTop(img)
        bottom == ScanBottom(img, top)
        left == ScanLeft(img, top, bottom)
        right == ScanRight(img, top, bottom, left)
    IN  [top |-> top, bottom |-> bottom, left |-> left, right |-> right]

(* The coordinates findContentBounds passes to isContent: each inner loop  *)
(* stops at the first content pixel, each outer loop at the first row or   *)
(* column with content.                                                    *)
IsContentCalls(img) ==
    LET top == ScanTop(img)
        bottom == ScanBottom(img, top)
        left == ScanLeft(img, top, bottom)
        rowReads(y) ==
            { << x, y >> : x \in { x \in 0 .. (img.width - 1) :
                                     \A z \in 0 .. (x - 1) : ~IsContent(img, z, y) } }
        columnReads(x) ==
            { << x, y >> : y \in { y \in top .. bottom :
                                     \A z \in top .. (y - 1) : ~IsContent(img, x, z) } }
        fromTop == { y \in 0 .. (img.height - 1) :
                       \A z \in 0 .. (y - 1) : ~RowHasContent(img, z) }
        fromBottom == { y \in top .. (img.height - 1) :
                          \A z \in (y + 1) .. (img.height - 1) : ~RowHasContent(img, z) }
        fromLeft == { x \in 0 .. (img.width - 1) :
                        \A z \in 0 .. (x - 1) : ~ColumnHasContent(img, z, top, bottom) }
        fromRight == { x \in left .. (img.width - 1) :
                         \A z \in (x + 1) .. (img.width - 1) :
                            ~ColumnHasContent(img, z, top, bottom) }
    IN  UNION ({ rowReads(y) : y \in fromTop \cup fromBottom }
               \cup { columnReads(x) : x \in fromLeft \cup fromRight })

BufferSides == 1 .. 3

BackgroundColours ==
    { << 255, 255, 255, 255 >>, << 235, 235, 235, 255 >>, << 255, 255, 255, 0 >> }

ContentColours ==
    { << 234, 255, 255, 255 >>, << 255, 234, 255, 255 >>,
      << 255, 255, 234, 255 >>, << 0, 0, 0, 0 >> }

Buffers ==
    UNION { { ImageData(w, h, [p \in (0 .. (w - 1)) \X (0 .. (h - 1)) |->
                                 IF p \in mask THEN fg ELSE bg]) :
                mask \in SUBSET ((0 .. (w - 1)) \X (0 .. (h - 1))),
                bg \in BackgroundColours, fg \in ContentColours } :
            w \in BufferSides, h \in BufferSides }

InitBounds ==
    /\ EditorNotOpen
    /\ \E img \in Buffers :
          call = [fn |-> "findContentBounds", imageData |-> img, result |-> NoRect,
                  reads |-> {}]

FindContentBoundsReturns ==
    /\ call.result = NoRect
    /\ call' = [call EXCEPT !.result = FindContentBounds(call.imageData),
                            !.reads = IsContentCalls(call.imageData)]
    /\ UNCHANGED editor

NextBounds == FindContentBoundsReturns

SpecBounds == InitBounds /\ [][NextBounds]_vars

(* SpecOptimize: the auto-crop rectangle of optimizeImageForAI for images  *)
(* below, at and above the analysis limit, with the rectangles the         *)
(* detector can return for the analysed canvas.                            *)

AnalysisLimit == 1500
CropPadding == 20

Larger(a, b) == IF a < b THEN b ELSE a

AnalysisScale(width, height) ==
    QMin(QInt(1), Q(AnalysisLimit, Larger(width, height)))

(* canvas.width = img.width * scale keeps the whole part *)
CanvasSide(side, scale) == QTrunc(QMul(QInt(side), scale))

(* The rectangle mapped back to the original size with no clamp *)
FinalBoundsUnclamped(bounds, scale, width, height) ==
    [top |-> QSub(QDiv(QInt(bounds.top), scale), QInt(CropPadding)),
     bottom |-> QAdd(QDiv(QInt(bounds.bottom), scale), QInt(CropPadding)),
     left |-> QSub(QDiv(QInt(bounds.left), scale), QInt(CropPadding)),
     right |-> QAdd(QDiv(QInt(bounds.right), scale), QInt(CropPadding))]

FinalBounds(bounds, scale, width, height) ==
    [top |-> QMax(QInt(0), QSub(QDiv(QInt(bounds.top), scale), QInt(CropPadding))),
     bottom |-> QMin(QInt(height),
                     QAdd(QDiv(QInt(bounds.bottom), scale), QInt(CropPadding))),
     left |-> QMax(QInt(0), QSub(QDiv(QInt(bounds.left), scale), QInt(CropPadding))),
     right |-> QMin(QInt(width),
                    QAdd(QDiv(QInt(bounds.right), scale), QInt(CropPadding)))]

ImageSides == {1, 2, 30, 41, 1500, 1501, 3000, 4000}

(* Some of the indices 0 .. n - 1 *)
SomeIndices(n) == { i \in {0, 1, n \div 3, n \div 2, n - 2, n - 1} : 0 <= i /\ i < n }

(* What findContentBounds can return for a canvas: the full frame, or the  *)
(* inclusive box of some content.                                          *)
DetectorResults(cw, ch) ==
    { [top |-> 0, bottom |-> ch, left |-> 0, right |-> cw] } \cup
    { d \in [top : SomeIndices(ch), bottom : SomeIndices(ch),
             left : SomeIndices(cw), right : SomeIndices(cw)] :
        d.top <= d.bottom /\ d.left <= d.right }

InitOptimize ==
    /\ EditorNotOpen
    /\ \E width \in ImageSides, height \in ImageSides :
          LET scale == AnalysisScale(width, height)
              cw == CanvasSide(width, scale)
              ch == CanvasSide(height, scale)
          IN  IF cw = 0 \/ ch = 0
              THEN call = [fn |-> "optimizeImageForAI", width |-> width,
                           height |-> height, bounds |-> NoRect, result |-> NoRect]
              ELSE \E d \in DetectorResults(cw, ch) :
                      call = [fn |-> "optimizeImageForAI", width |-> width,
                              height |-> height, bounds |-> d, result |-> NoRect]

(* getImageData throws on a canvas with an empty side, and the function    *)
(* computes no rectangle.                                                  *)
OptimizeReturns ==
    /\ call.result = NoRect
    /\ call' = [call EXCEPT !.result =
                  IF call.bounds = NoRect
                  THEN [error |-> "IndexSizeError"]
                  ELSE FinalBounds(call.bounds,
                                   AnalysisScale(call.width, call.height),
                                   call.width, call.height)]
    /\ UNCHANGED editor

NextOptimize == OptimizeReturns

SpecOptimize == InitOptimize /\ [][NextOptimize]_vars

(* SpecAdjust: the buffer composed by applyAdjustments from a source       *)
(* image, a crop rectangle (or none) and a redaction list.                 *)

(* The whole image, whatever the crop *)
SourceFrame(bounds, width, height) ==
    [sx |-> QInt(0), sy |-> QInt(0), sw |-> QInt(width), sh |-> QInt(height)]

CropFrame(bounds, width, height) ==
    IF bounds = NoRect
    THEN [sx |-> QInt(0), sy |-> QInt(0), sw |-> QInt(width), sh |-> QInt(height)]
    ELSE [sx |-> bounds.left, sy |-> bounds.top,
          sw |-> QSub(bounds.right, bounds.left),
          sh |-> QSub(bounds.bottom, bounds.top)]

(* canvas.width and canvas.height hold whole numbers *)
CanvasDimension(v) == QTrunc(v)

ApplyAdjustments(width, height, bounds, redactions) ==
    LET f == CropFrame(bounds, width, height)
    IN  [width |-> CanvasDimension(f.sw),
         height |-> CanvasDimension(f.sh),
         fills |-> [i \in DOMAIN redactions |->
                      [x |-> QSub(QInt(redactions[i].x), f.sx),
                       y |-> QSub(QInt(redactions[i].y), f.sy),
                       w |-> redactions[i].w, h |-> redactions[i].h]]]

SourceSides == {2, 3}

CropCoordinates(side) ==
    { c \in {QInt(0), Q(1, 2), QInt(1), Q(4, 3), QInt(2), Q(5, 2), QInt(3)} :
        QLeq(c, QInt(side)) }

CropsInside(width, height) ==
    { b \in [top : CropCoordinates(height), bottom : CropCoordinates(height),
             left : CropCoordinates(width), right : CropCoordinates(width)] :
        QLeq(b.top, b.bottom) /\ QLeq(b.left, b.right) }

RedactionLists ==
    { <<>>,
      << [x |-> 0, y |-> 0, w |-> 1, h |-> 1] >>,
      << [x |-> 1, y |-> 1, w |-> 2, h |-> 1], [x |-> 0, y |-> 1, w |-> 1, h |-> 1] >> }

InitAdjust ==
    /\ EditorNotOpen
    /\ \E width \in SourceSides, height \in SourceSides :
          \E bounds \in CropsInside(width, height) \cup {NoRect},
             redactions \in RedactionLists :
                call = [fn |-> "applyAdjustments", width |-> width, height |-> height,
                        bounds |-> bounds, redactions |-> redactions,
                        result |-> NoRect]

AdjustReturns ==
    /\ call.result = NoRect
    /\ call' = [call EXCEPT !.result =
                  ApplyAdjustments(call.width, call.height, call.bounds,
                                   call.redactions)]
    /\ UNCHANGED editor

NextAdjust == AdjustReturns

SpecAdjust == InitAdjust /\ [][NextAdjust]_vars

(* SpecCompose: the pixels of the buffer composed by applyAdjustments for  *)
(* a whole-pixel crop (or none) and redactions with whole or fractional    *)
(* coordinates.  A source pixel is named by its position.                  *)

SourcePixel(x, y) == [kind |-> "source", at |-> << x, y >>]

(* How much of the output pixel (px, py) the fill of r covers, r already   *)
(* in buffer space.                                                        *)
Coverage(r, px, py) ==
    LET x0 == QMin(r.x, QAdd(r.x, r.w))
        x1 == QMax(r.x, QAdd(r.x, r.w))
        y0 == QMin(r.y, QAdd(r.y, r.h))
        y1 == QMax(r.y, QAdd(r.y, r.h))
    IN  IF \/ QLeq(x1, QInt(px)) \/ QLeq(QInt(px + 1), x0)
           \/ QLeq(y1, QInt(py)) \/ QLeq(QInt(py + 1), y0)
        THEN "none"
        ELSE IF /\ QLeq(x0, QInt(px)) /\ QLeq(QInt(px + 1), x1)
                /\ QLeq(y0, QInt(py)) /\ QLeq(QInt(py + 1), y1)
             THEN "full"
             ELSE "partial"

(* fillRect in '#000': a pixel covered in full becomes black, a pixel      *)
(* covered in part is blended with black.                                  *)
FillRect(pixel, r, px, py) ==
    CASE Coverage(r, px, py) = "none" -> pixel
      [] Coverage(r, px, py) = "full" -> [pixel EXCEPT !.kind = "black"]
      [] OTHER -> IF pixel.kind = "black" THEN pixel
                  ELSE [pixel EXCEPT !.kind = "blend"]

(* r moved into the space of the cropped buffer *)
ShiftRedaction(r, sx, sy) ==
    [x |-> QSub(r.x, QInt(sx)), y |-> QSub(r.y, QInt(sy)), w |-> r.w, h |-> r.h]

RECURSIVE FillAll(_, _, _, _, _, _)
FillAll(pixel, redactions, sx, sy, px, py) ==
    IF redactions = << >> THEN pixel
    ELSE FillAll(FillRect(pixel, ShiftRedaction(Head(redactions), sx, sy), px, py),
                 Tail(redactions), sx, sy, px, py)

ComposeBuffer(width, height, bounds, redactions) ==
    LET sx == IF bounds = NoRect THEN 0 ELSE bounds.left
        sy == IF bounds = NoRect THEN 0 ELSE bounds.top
        sw == IF bounds = NoRect THEN width ELSE bounds.right - bounds.left
        sh == IF bounds = NoRect THEN height ELSE bounds.bottom - bounds.top
    IN  [width |-> sw, height |-> sh, sx |-> sx, sy |-> sy,
         pixels |-> [p \in (0 .. (sw - 1)) \X (0 .. (sh - 1)) |->
                       FillAll(SourcePixel(p[1] + sx, p[2] + sy), redactions,
                               sx, sy, p[1], p[2])]]

ComposeWidth == 3
ComposeHeight == 2

WholeCrops ==
    { b \in [top : 0 .. ComposeHeight, bottom : 0 .. ComposeHeight,
             left : 0 .. ComposeWidth, right : 0 .. ComposeWidth] :
        b.top < b.bottom /\ b.left < b.right }

ComposeRedactions ==
    [x : {QInt(0), Q(1, 2), QInt(1), QInt(2)}, y : {QInt(0), QInt(1)},
     w : {Q(1, 2), QInt(1), QInt(2)}, h : {QInt(1)}]

ComposeLists ==
    { << >> } \cup { << r >> : r \in ComposeRedactions }
      \cup { << r, q >> : r \in ComposeRedactions,
                          q \in { c \in ComposeRedactions : c.w = QInt(1) } }

InitCompose ==
    /\ EditorNotOpen
    /\ \E bounds \in WholeCrops \cup {NoRect}, redactions \in ComposeLists :
          call = [fn |-> "applyAdjustments", width |-> ComposeWidth,
                  height |-> ComposeHeight, bounds |-> bounds,
                  redactions |-> redactions, result |-> NoRect]

ComposeReturns ==
    /\ call.result = NoRect
    /\ call' = [call EXCEPT !.result =
                  ComposeBuffer(call.width, call.height, call.bounds,
                                call.redactions)]
    /\ UNCHANGED editor

NextCompose == ComposeReturns

SpecCompose == InitCompose /\ [][NextCompose]_vars

(* SpecChunks: the rasters produced from a composed buffer, the primary    *)
(* one and the vertical chunks of createVerticalChunks.  sw and sh are the *)
(* crop's width and height as computed, the canvas keeps their whole       *)
(* parts.                                                                  *)

ChunkRatio == Q(18, 10)         \* ratio > 1.8
ThreeChunkRatio == Q(32, 10)    \* ratio > 3.2
Overlap == Q(15, 100)           \* 0.15

(* Two chunks whatever the ratio *)
TwoChunks(ratio) == 2

NumChunks(ratio) == IF QLess(ThreeChunkRatio, ratio) THEN 3 ELSE 2

ChunkHeight(canvasHeight, numChunks) ==
    QDiv(QInt(canvasHeight),
         QSub(QInt(numChunks), QMul(QInt(numChunks - 1), Overlap)))

ChunkStep(canvasHeight, numChunks) ==
    QMul(ChunkHeight(canvasHeight, numChunks), QSub(QInt(1), Overlap))

(* Chunk i (from 0): the rows of the buffer asked for, from yStart over    *)
(* actualHeight, and the height of the chunk's canvas, which keeps the     *)
(* whole part of actualHeight and clips the rest.                          *)
VerticalChunk(i, canvasWidth, canvasHeight, numChunks) ==
    LET yStart == QMul(QInt(i), ChunkStep(canvasHeight, numChunks))
        actualHeight == QMin(ChunkHeight(canvasHeight, numChunks),
                             QSub(QInt(canvasHeight), yStart))
    IN  [kind |-> "chunk", width |-> canvasWidth, yStart |-> yStart,
         actualHeight |-> actualHeight, height |-> QTrunc(actualHeight)]

CreateVerticalChunks(canvasWidth, canvasHeight, ratio) ==
    [k \in 1 .. NumChunks(ratio) |->
        VerticalChunk(k - 1, canvasWidth, canvasHeight, NumChunks(ratio))]

(* The whole buffer, encoded by canvas.toBlob *)
PrimaryRaster(canvasWidth, canvasHeight) ==
    [kind |-> "primary", width |-> canvasWidth, yStart |-> QInt(0),
     actualHeight |-> QInt(canvasHeight), height |-> canvasHeight]

BufferRasters(sw, sh) ==
    LET ratio == QDiv(sh, sw)
        displayBlob == PrimaryRaster(QTrunc(sw), QTrunc(sh))
    IN  [blob |-> displayBlob,
         chunks |-> IF QLess(ChunkRatio, ratio)
                    THEN CreateVerticalChunks(QTrunc(sw), QTrunc(sh), ratio)
                    ELSE << displayBlob >>]

CropWidths == {QInt(1), QInt(10), Q(109, 10), QInt(20), Q(41, 2)}
CropHeights ==
    { QInt(h) : h \in {10, 15, 18, 19, 20, 32, 33, 35, 36, 37, 54, 64, 65, 70} }
      \cup {Q(37, 2), Q(73, 2), Q(131, 2)}

InitChunks ==
    /\ EditorNotOpen
    /\ \E sw \in CropWidths, sh \in CropHeights :
          call = [fn |-> "createVerticalChunks", sw |-> sw, sh |-> sh,
                  result |-> NoRect]

ChunksReturn ==
    /\ call.result = NoRect
    /\ call' = [call EXCEPT !.result = BufferRasters(call.sw, call.sh)]
    /\ UNCHANGED editor

NextChunks == ChunksReturn

SpecChunks == InitChunks /\ [][NextChunks]_vars

(* SpecRetry: handleRetryAI from the click on Retry to the prompts of      *)
(* runAIExtraction, with applyAdjustments and createVerticalChunks run     *)
(* step by step (one action per stretch of code between two awaits), and   *)
(* the editor's listeners running in between.  call holds the locals of    *)
(* the retry and what it shows.                                            *)

NullBlob == [null |-> TRUE]

(* The geometry parsed at the click *)
ParsedGeometry(bounds, redactions) == [bounds |-> bounds, redactions |-> redactions]

(* The geometry applyAdjustments composes: its arguments, not the card's   *)
(* data at the time the image has loaded.                                  *)
LiveGeometry(passed, live) == live
ComposedGeometry(passed, live) == passed

(* The fills on the canvas when toBlob is first called *)
NothingPainted(redactions) == 0
Painted(redactions) == Len(redactions)

(* A JSON null in arithmetic counts as 0 *)
ParsedNumber(a) == IF a = JsonNull THEN 0 ELSE a

RetryFrame(bounds, width, height) ==
    IF bounds = NoRect
    THEN [sw |-> QInt(width), sh |-> QInt(height)]
    ELSE [sw |-> QInt(ParsedNumber(bounds.right) - ParsedNumber(bounds.left)),
          sh |-> QInt(ParsedNumber(bounds.bottom) - ParsedNumber(bounds.top))]

(* A raster of the canvas: its rows, and the canvas as it was painted *)
RasterOf(shape, canvas) == [shape |-> shape, canvas |-> canvas]

besidesModal == << redactMode, isBoxDragging, startX, startY, currentCropBox,
                   currentRedactions, interactionType, activeHandle,
                   selectedRedactionIndex, cardBounds, cardRedactions,
                   renderedSelected, anchorX, anchorY, anchorRect, clamped,
                   displaced, events, lastEvent, opened >>

(* Lines 109-131 and 166-214: the button is hidden, the indicator shown,   *)
(* the card's data parsed, and the image given its source.                 *)
RetryClicked ==
    /\ modalOpen /\ call = NoCall
    /\ call' = [fn |-> "handleRetryAI", pc |-> "decoding",
                passed |-> ParsedGeometry(cardBounds, cardRedactions),
                button |-> "none", indicator |-> "flex", toast |-> "none",
                preview |-> "optimized", canvas |-> NoRect, blob |-> NoRect,
                chunks |-> << >>, prompts |-> << >>]
    /\ UNCHANGED editor

(* img.onload, lines 169-203: the crop is drawn, every redaction filled,   *)
(* and the encoding of the canvas asked for.                               *)
ImageLoaded ==
    /\ call.fn = "handleRetryAI" /\ call.pc = "decoding"
    /\ LET g == ComposedGeometry(call.passed,
                                 ParsedGeometry(cardBounds, cardRedactions))
           f == RetryFrame(g.bounds, NaturalWidth, NaturalHeight)
       IN  call' = [call EXCEPT !.pc = "encoding",
                       !.canvas = [bounds |-> g.bounds, redactions |-> g.redactions,
                                   sw |-> f.sw, sh |-> f.sh,
                                   fills |-> Painted(g.redactions)]]
    /\ UNCHANGED editor

(* The image cannot be decoded: its error event has no listener, and the   *)
(* promise of applyAdjustments is never settled.                           *)
ImageFailed ==
    /\ call.fn = "handleRetryAI" /\ call.pc = "decoding"
    /\ call' = [call EXCEPT !.pc = "undecoded"]
    /\ UNCHANGED editor

(* Lines 132-163 with the blob and the chunks applyAdjustments resolved    *)
(* with: URL.createObjectURL throws on a null blob, which the catch        *)
(* reports; otherwise the preview is replaced, the modal closed and the    *)
(* extraction started.  The finally block shows the button again.          *)
RetryResumes(blob, chunks) ==
    IF blob = NullBlob
    THEN /\ call' = [call EXCEPT !.pc = "failed", !.blob = blob, !.chunks = chunks,
                        !.toast = "Failed to process image adjustments",
                        !.button = "block", !.indicator = "none"]
         /\ UNCHANGED editor
    ELSE /\ call' = [call EXCEPT !.pc = "extracting", !.blob = blob,
                        !.chunks = chunks, !.preview = "processed",
                        !.toast = "Retrying analysis in background...",
                        !.button = "block", !.indicator = "none"]
         /\ modalOpen' = FALSE
         /\ UNCHANGED besidesModal

(* The primary raster is encoded, or toBlob gives null; a buffer that is   *)
(* not tall is handed over as the one chunk.                               *)
PrimaryEncoded(encoded) ==
    /\ call.fn = "handleRetryAI" /\ call.pc = "encoding"
    /\ LET c == call.canvas
           displayBlob == IF encoded
                          THEN RasterOf(PrimaryRaster(QTrunc(c.sw), QTrunc(c.sh)), c)
                          ELSE NullBlob
       IN  IF QLess(ChunkRatio, QDiv(c.sh, c.sw))
           THEN /\ call' = [call EXCEPT !.pc = "chunking", !.blob = displayBlob]
                /\ UNCHANGED editor
           ELSE RetryResumes(displayBlob, << displayBlob >>)

(* The next chunk is encoded, or toBlob gives null; after the last one     *)
(* applyAdjustments resolves.                                              *)
ChunkEncoded(encoded) ==
    /\ call.fn = "handleRetryAI" /\ call.pc = "chunking"
    /\ LET c == call.canvas
           n == NumChunks(QDiv(c.sh, c.sw))
           i == Len(call.chunks)
           blob == IF encoded
                   THEN RasterOf(VerticalChunk(i, QTrunc(c.sw), QTrunc(c.sh), n), c)
                   ELSE NullBlob
       IN  IF i + 1 < n
           THEN /\ call' = [call EXCEPT !.chunks = Append(call.chunks, blob)]
                /\ UNCHANGED editor
           ELSE RetryResumes(call.blob, Append(call.chunks, blob))

(* runAIExtraction: one prompt whose image is the argument as given *)
RunAIExtraction(imageBlob) == << [image |-> imageBlob] >>

(* The session is obtained and prompted, or getAISession throws and the    *)
(* failure is reported.                                                    *)
ExtractionRan(session) ==
    /\ call.fn \in {"handleRetryAI", "processReceipt"} /\ call.pc = "extracting"
    /\ call' = IF session
               THEN [call EXCEPT !.pc = "prompted",
                                 !.prompts = RunAIExtraction(call.chunks)]
               ELSE [call EXCEPT !.pc = "unprompted", !.toast = "AI failed"]
    /\ UNCHANGED editor

(* A card with a tall crop and a redaction inside it, in either mode *)
TallCrop == [top |-> 0, left |-> 0, bottom |-> NaturalHeight, right |-> MinBoxSize]

RetryGeometry ==
    SavedGeometry \cup
    { << TallCrop, << r >>, mode >> :
         r \in { c \in SavedRedactions : c.w = MinBoxSize /\ c.x = 0 },
         mode \in BOOLEAN }

InitRetry == EditorOpensOn(RetryGeometry) /\ opened = NoRect

RetryPending ==
    call.fn = "handleRetryAI" /\ call.pc \in {"decoding", "encoding", "chunking"}

(* The editor's listeners run while the retry waits for the image or for   *)
(* an encoding, for at most MaxEvents - 1 runs.                            *)
NextRetry ==
    \/ RetryPending /\ events < MaxEvents - 1 /\ Next
    \/ RetryClicked
    \/ ImageLoaded
    \/ ImageFailed
    \/ \E encoded \in BOOLEAN : PrimaryEncoded(encoded)
    \/ \E encoded \in BOOLEAN : ChunkEncoded(encoded)
    \/ \E session \in BOOLEAN : ExtractionRan(session)

SpecRetry == InitRetry /\ [][NextRetry]_vars

(* SpecScan: processReceipt for one file of the folder, from the call of   *)
(* optimizeImageForAI to the prompts of runAIExtraction.                   *)

OriginalFile(width, height) == [kind |-> "file", width |-> width, height |-> height]

(* The catch block of processReceipt left out: no card, no extraction *)
Rethrown(file) ==
    [pc |-> "thrown", card |-> NoRect, chunks |-> << >>]

(* The catch block of processReceipt: the file itself is the blob and the  *)
(* one chunk, and the crop is null.                                        *)
OriginalAsChunk(file) ==
    [pc |-> "extracting",
     card |-> [blob |-> file, originalFile |-> file, bounds |-> "null"],
     chunks |-> << file >>]

(* What optimizeImageForAI resolves with, taken over by processReceipt *)
Optimized(file, bounds) ==
    LET rasters == BufferRasters(QSub(bounds.right, bounds.left),
                                 QSub(bounds.bottom, bounds.top))
    IN  [pc |-> "extracting",
         card |-> [blob |-> rasters.blob, originalFile |-> file, bounds |-> bounds],
         chunks |-> rasters.chunks]

ScanDetections(cw, ch) ==
    { d \in DetectorResults(cw, ch) :
        \/ d.right = cw
        \/ d.left = 0 /\ d.top = 0 /\ d.right = cw - 1
        \/ d.left = d.right /\ d.top = d.bottom }

InitScan ==
    /\ EditorNotOpen
    /\ \E width \in ImageSides, height \in ImageSides :
          call = [fn |-> "processReceipt", pc |-> "optimizing",
                  file |-> OriginalFile(width, height), optimize |-> "pending",
                  card |-> NoRect, chunks |-> << >>, prompts |-> << >>,
                  toast |-> "none"]

(* The image loads and is analysed; lines 261-265 and 275-281 follow *)
OptimizeResolves ==
    /\ call.fn = "processReceipt" /\ call.pc = "optimizing"
    /\ LET scale == AnalysisScale(call.file.width, call.file.height)
           cw == CanvasSide(call.file.width, scale)
           ch == CanvasSide(call.file.height, scale)
       IN  /\ cw > 0 /\ ch > 0
           /\ \E d \in ScanDetections(cw, ch) :
                 LET o == Optimized(call.file,
                                    FinalBounds(d, scale, call.file.width,
                                                call.file.height))
                 IN  call' = [call EXCEPT !.optimize = "resolved", !.pc = o.pc,
                                          !.card = o.card, !.chunks = o.chunks]
    /\ UNCHANGED editor

(* The analysed canvas has an empty side: getImageData throws inside       *)
(* img.onload and the promise is never settled.                            *)
OptimizeStalls ==
    /\ call.fn = "processReceipt" /\ call.pc = "optimizing"
    /\ LET scale == AnalysisScale(call.file.width, call.file.height)
       IN  \/ CanvasSide(call.file.width, scale) = 0
           \/ CanvasSide(call.file.height, scale) = 0
    /\ call' = [call EXCEPT !.optimize = "stalled", !.pc = "stalled"]
    /\ UNCHANGED editor

(* img.onerror rejects; lines 266-272 and 275-281 follow *)
OptimizeRejects ==
    /\ call.fn = "processReceipt" /\ call.pc = "optimizing"
    /\ LET o == OriginalAsChunk(call.file)
       IN  call' = [call EXCEPT !.optimize = "rejected", !.pc = o.pc,
                                !.card = o.card, !.chunks = o.chunks]
    /\ UNCHANGED editor

NextScan ==
    \/ OptimizeResolves
    \/ OptimizeStalls
    \/ OptimizeRejects
    \/ \E session \in BOOLEAN : ExtractionRan(session)

SpecScan == InitScan /\ [][NextScan]_vars

(* SpecRetryLive: the retry alone, where the browser goes on to deliver    *)
(* every event and callback the retry waits for (the load or the error of  *)
(* the image, the blob of each toBlob, the session): weak fairness on the  *)
(* steps of the retry.                                                     *)

RetrySteps ==
    \/ ImageLoaded
    \/ ImageFailed
    \/ \E encoded \in BOOLEAN : PrimaryEncoded(encoded)
    \/ \E encoded \in BOOLEAN : ChunkEncoded(encoded)
    \/ \E session \in BOOLEAN : ExtractionRan(session)

NextRetryAlone == RetryClicked \/ RetrySteps

SpecRetryLive ==
    InitRetry /\ [][NextRetryAlone]_vars /\ WF_vars(RetryClicked) /\ WF_vars(RetrySteps)

(* SpecHandOver: the open editor is handed the geometry of a card through  *)
(* setupCroppingUI, setActiveRedactionCard and renderRedactions, with      *)
(* rectangles that are valid or not.                                       *)

HandedCrops ==
    [left : {0 - MinBoxSize, 0, MinBoxSize, NaturalWidth},
     right : {0, MinBoxSize, NaturalWidth, NaturalWidth + MinBoxSize},
     top : {0}, bottom : {MinBoxSize, NaturalHeight}] \cup {NoRect}

HandedRedactions ==
    SavedRedactions \cup
    { [x |-> 0, y |-> 0, w |-> 0, h |-> MinBoxSize],
      [x |-> MinBoxSize, y |-> 0, w |-> 0 - MinBoxSize, h |-> MinBoxSize],
      [x |-> NaturalWidth, y |-> 0, w |-> MinBoxSize, h |-> MinBoxSize] }

HandedLists == { << >> } \cup { << r >> : r \in HandedRedactions }

SetupCroppingUI(bounds) ==
    /\ modalOpen
    /\ call' = [fn |-> "setupCroppingUI", bounds |-> bounds]
    /\ currentCropBox' = IF bounds = NoRect THEN currentCropBox
                         ELSE bounds          \* { ...bounds }
    /\ UNCHANGED << modalOpen, redactMode, isBoxDragging, startX, startY,
                    currentRedactions, interactionType, activeHandle,
                    selectedRedactionIndex, cardBounds, cardRedactions,
                    renderedSelected, anchorX, anchorY, anchorRect, clamped,
                    displaced, events, lastEvent, opened >>

SetActiveRedactionCard(redactions) ==
    /\ modalOpen
    /\ call' = [fn |-> "setActiveRedactionCard", redactions |-> redactions]
    /\ currentRedactions' = redactions
    /\ UNCHANGED << modalOpen, redactMode, isBoxDragging, startX, startY,
                    currentCropBox, interactionType, activeHandle,
                    selectedRedactionIndex, cardBounds, cardRedactions,
                    renderedSelected, anchorX, anchorY, anchorRect, clamped,
                    displaced, events, lastEvent, opened >>

RenderRedactionsOf(redactions) ==
    /\ modalOpen
    /\ call' = [fn |-> "renderRedactions", redactions |-> redactions]
    /\ currentRedactions' = redactions
    /\ renderedSelected' = IF selectedRedactionIndex < Len(redactions)
                           THEN selectedRedactionIndex ELSE -1
    /\ UNCHANGED << modalOpen, redactMode, isBoxDragging, startX, startY,
                    currentCropBox, interactionType, activeHandle,
                    selectedRedactionIndex, cardBounds, cardRedactions,
                    anchorX, anchorY, anchorRect, clamped, displaced, events,
                    lastEvent, opened >>

NextHandOver ==
    \/ \E bounds \in HandedCrops : SetupCroppingUI(bounds)
    \/ \E redactions \in HandedLists : SetActiveRedactionCard(redactions)
    \/ \E redactions \in HandedLists : RenderRedactionsOf(redactions)

SpecHandOver == Init /\ [][NextHandOver]_vars

(* SpecCards: the pure helpers of updateReceiptCard.  A string is the      *)
(* sequence of its characters; an item of a candidate list is a string, a  *)
(* number, null or undefined.                                              *)

Str(chars) == [type |-> "string", chars |-> chars]
Num(n) == [type |-> "number", value |-> n]
JsNull == [type |-> "null"]
JsUndefined == [type |-> "undefined"]

Digit(n) == CASE n = 0 -> "0" [] n = 1 -> "1" [] n = 2 -> "2" [] n = 3 -> "3"
              [] n = 4 -> "4" [] n = 5 -> "5" [] n = 6 -> "6" [] n = 7 -> "7"
              [] n = 8 -> "8" [] n = 9 -> "9"

RECURSIVE Digits(_)
Digits(n) == IF n < 10 THEN << Digit(n) >> ELSE Append(Digits(n \div 10), Digit(n % 10))

(* String(item) for a string or a number that is a natural *)
StringOf(item) == IF item.type = "string" THEN item.chars ELSE Digits(item.value)

IsSpace(c) == c = " "

RECURSIVE TrimStart(_)
TrimStart(s) == IF s # << >> /\ IsSpace(Head(s)) THEN TrimStart(Tail(s)) ELSE s

RECURSIVE TrimEnd(_)
TrimEnd(s) ==
    IF s # << >> /\ IsSpace(s[Len(s)]) THEN TrimEnd(SubSeq(s, 1, Len(s) - 1)) ELSE s

(* The string as it is *)
Untrimmed(s) == s

Trim(s) == TrimEnd(TrimStart(s))

LowerCaseOf(c) ==
    CASE c = "F" -> "f" [] c = "O" -> "o" [] c = "B" -> "b" [] c = "A" -> "a"
      [] c = "R" -> "r" [] OTHER -> c

ToLowerCase(s) == [i \in 1 .. Len(s) |-> LowerCaseOf(s[i])]

(* String(item).trim().toLowerCase() *)
Normalized(item) == ToLowerCase(Trim(StringOf(item)))

(* arr.filter with the set seen *)
RECURSIVE DedupeFrom(_, _)
DedupeFrom(arr, seen) ==
    IF arr = << >> THEN << >>
    ELSE LET item == Head(arr)
         IN  IF item = JsNull \/ item = JsUndefined
             THEN DedupeFrom(Tail(arr), seen)
             ELSE IF Normalized(item) \in seen
                  THEN DedupeFrom(Tail(arr), seen)
                  ELSE << item >> \o DedupeFrom(Tail(arr), seen \cup {Normalized(item)})

Dedupe(arr) == DedupeFrom(arr, {})

MaxCandidates == 3

Candidates ==
    { Str(<< "F", "o", "o" >>), Str(<< "f", "o", "o", " " >>),
      Str(<< "B", "a", "r" >>), Str(<< " ", "b", "a", "r" >>),
      Str(<< "f", "o", "o" >>), Str(<< "F", "O", "O" >>), Str(<< >>),
      Str(<< " " >>), Str(<< "1" >>), Num(1), Num(10), JsNull, JsUndefined }

CandidateLists == UNION { [1 .. n -> Candidates] : n \in 0 .. MaxCandidates }

InitCards ==
    /\ EditorNotOpen
    /\ \E arr \in CandidateLists :
          call = [fn |-> "dedupe", arr |-> arr, returned |-> FALSE, result |-> << >>]

DedupeReturns ==
    /\ call.fn = "dedupe" /\ ~call.returned
    /\ call' = [call EXCEPT !.returned = TRUE, !.result = Dedupe(call.arr)]
    /\ UNCHANGED editor

(* normalizeDate.  The characters of a date string are digits and the      *)
(* separators; "nen", "gatsu" and "nichi" stand for the three CJK markers. *)
DateSeparators == {"nen", "gatsu", "nichi", "/", "."}

(* Only the slash is taken for a separator *)
SlashToDash(s) == [i \in 1 .. Len(s) |-> IF s[i] = "/" THEN "-" ELSE s[i]]

(* dateStr.replace(/[年月日\/\.]/g, '-') *)
SeparatorsToDash(s) == [i \in 1 .. Len(s) |-> IF s[i] \in DateSeparators THEN "-" ELSE s[i]]

(* clean.replace(/-$/, '') *)
DropTrailingDash(s) ==
    IF s # << >> /\ s[Len(s)] = "-" THEN SubSeq(s, 1, Len(s) - 1) ELSE s

(* s.split(sep) *)
RECURSIVE Split(_, _)
Split(s, sep) ==
    IF \A i \in 1 .. Len(s) : s[i] # sep THEN << s >>
    ELSE LET at == CHOOSE i \in 1 .. Len(s) :
                      s[i] = sep /\ \A j \in 1 .. (i - 1) : s[j] # sep
         IN  << SubSeq(s, 1, at - 1) >> \o Split(SubSeq(s, at + 1, Len(s)), sep)

RECURSIVE PadStart(_, _, _)
PadStart(s, length, pad) == IF Len(s) >= length THEN s ELSE PadStart(<< pad >> \o s, length, pad)

IsDigit(c) == c \in {"0", "1", "2", "3", "4", "5", "6", "7", "8", "9"}

IsNumeral(s) == s # << >> /\ \A i \in 1 .. Len(s) : IsDigit(s[i])

RECURSIVE NumberOf(_)
NumberOf(s) ==
    IF s = << >> THEN 0
    ELSE NumberOf(SubSeq(s, 1, Len(s) - 1)) * 10
            + (CHOOSE n \in 0 .. 9 : Digit(n) = s[Len(s)])

IsLeapYear(y) == (y % 4 = 0 /\ y % 100 # 0) \/ y % 400 = 0

DaysInMonth(y, m) ==
    IF m = 2 THEN (IF IsLeapYear(y) THEN 29 ELSE 28)
    ELSE IF m \in {4, 6, 9, 11} THEN 30 ELSE 31

(* !isNaN(Date.parse(iso)) for a string of numerals joined by dashes.  A   *)
(* YYYY-MM-DD string of a calendar date parses in every engine.  Anything  *)
(* else is left to the engine: a lenient one accepts a string that reads   *)
(* as year-month-day or as month-day-year with the month in 1..12 and the  *)
(* day in 1..31; no engine accepts a string without such a reading.        *)
DateParses(iso, lenient) ==
    LET fields == Split(iso, "-")
    IN  /\ Len(fields) = 3
        /\ \A i \in 1 .. 3 : IsNumeral(fields[i]) /\ Len(fields[i]) <= 4
        /\ LET a == NumberOf(fields[1])
               b == NumberOf(fields[2])
               c == NumberOf(fields[3])
           IN  \/ /\ Len(fields[1]) = 4 /\ Len(fields[2]) = 2 /\ Len(fields[3]) = 2
                  /\ b \in 1 .. 12
                  /\ c \in 1 .. DaysInMonth(a, b)
               \/ /\ lenient
                  /\ \/ b \in 1 .. 12 /\ c \in 1 .. 31
                     \/ a \in 1 .. 12 /\ b \in 1 .. 31

NormalizeDate(dateStr, lenient) ==
    IF dateStr = << >> THEN << >>
    ELSE LET clean == DropTrailingDash(SeparatorsToDash(dateStr))
             split == Split(clean, "-")
             parts == SelectSeq(split, LAMBDA p : Trim(p) # << >>)
         IN  IF Len(parts) >= 3
             THEN LET m == PadStart(parts[2], 2, "0")
                      d == PadStart(parts[3], 2, "0")
                      y == IF Len(parts[1]) = 2 THEN << "2", "0" >> \o parts[1] ELSE parts[1]
                      iso == y \o << "-" >> \o m \o << "-" >> \o d
                  IN  IF DateParses(iso, lenient) THEN iso ELSE << >>
             ELSE << >>

DateTokens ==
    { << "2", "0", "2", "6" >>, << "2", "6" >>, << "0", "1" >>, << "1" >>,
      << "0", "2" >>, << "1", "3" >>, << "4", "5" >>, << "3", "1" >>, << >> }

(* The separators written after the first, the second and the third token *)
DateStyles ==
    { << << "/" >>, << "/" >>, << >> >>, << << "." >>, << "." >>, << >> >>,
      << << "-" >>, << "-" >>, << >> >>, << << "-" >>, << "-" >>, << "-" >> >>,
      << << "nen" >>, << "gatsu" >>, << "nichi" >> >>,
      << << "/" >>, << "." >>, << >> >>, << << >>, << >>, << >> >> }

Written(tokens, style) ==
    tokens[1] \o style[1] \o tokens[2] \o style[2] \o tokens[3] \o style[3]

InitDates ==
    /\ EditorNotOpen
    /\ \E tokens \in [1 .. 3 -> DateTokens], style \in DateStyles, lenient \in BOOLEAN :
          call = [fn |-> "normalizeDate", tokens |-> tokens, style |-> style,
                  dateStr |-> Written(tokens, style), lenient |-> lenient,
                  returned |-> FALSE, result |-> << >>]

NormalizeDateReturns ==
    /\ call.fn = "normalizeDate" /\ ~call.returned
    /\ call' = [call EXCEPT !.returned = TRUE,
                            !.result = NormalizeDate(call.dateStr, call.lenient)]
    /\ UNCHANGED editor

NextCards == DedupeReturns \/ NormalizeDateReturns

SpecCards == (InitCards \/ InitDates) /\ [][NextCards]_vars

(* SpecReopen: the editor showing a list of saved redactions with any      *)
(* selection is handed the redaction list of a card (setActiveRedactionCard *)
(* when a card is opened, renderRedactions when a list is drawn), and the  *)
(* toolbar commands run.                                                   *)
NextReopen ==
    \/ \E redactions \in HandedLists : SetActiveRedactionCard(redactions)
    \/ \E redactions \in HandedLists : RenderRedactionsOf(redactions)
    \/ NextList

SpecReopen == InitList /\ [][NextReopen]_vars

(* SpecListDrag: the pointer handlers on every list of two saved           *)
(* redactions with every selection, for one handler run fewer than Spec.   *)
InitListDrag == InitList /\ Len(currentRedactions) = 2

NextListDrag ==
    /\ events < MaxEvents - 1
    /\ \/ \E px \in ClientXs, py \in ClientYs, target \in Handles \cup {"body"} :
             MouseDownCropBox(px, py, target) /\ Ran("mousedown") /\ NoHistory
       \/ \E i \in 0 .. 1, px \in ClientXs, py \in ClientYs,
             target \in Handles \cup {"body"} :
             MouseDownRedaction(i, px, py, target) /\ Ran("mousedown") /\ NoHistory
       \/ \E px \in ClientXs, py \in ClientYs :
             MouseMove(px, py) /\ Ran("mousemove") /\ NoHistory
       \/ \E px \in ClientXs, py \in ClientYs :
             MouseUp(px, py) /\ Ran("mouseup") /\ NoHistory

SpecListDrag == InitListDrag /\ [][NextListDrag]_vars

(* SpecExtract: runAIExtraction called up to MaxExtractions times without  *)
(* waiting for one another (scanFolder does not await processReceipt, a    *)
(* retry runs in the background).  call holds the module variable          *)
(* baseSession (0 for null, else the number of the LanguageModel.create    *)
(* call that made it), the number of create calls, and per extraction the  *)
(* card it was started for, the await it is suspended at, and the base     *)
(* session its clone was taken from; shown is the extraction whose data    *)
(* updateReceiptCard last wrote to each card.                              *)
MaxExtractions == 3

ExtractionCards == 1 .. 2

InitExtract ==
    /\ EditorNotOpen
    /\ call = [fn |-> "runAIExtraction", baseSession |-> 0, creates |-> 0,
               card |-> << >>, pc |-> << >>, base |-> << >>,
               shown |-> [c \in ExtractionCards |-> 0]]

Extracting == call.fn = "runAIExtraction"

(* runAIExtraction is called and runs to its first await: getAISession     *)
(* finds no base session and setupAI awaits LanguageModel.params(), or     *)
(* finds one and awaits its clone.                                         *)
StartExtraction(card) ==
    /\ Extracting
    /\ Len(call.pc) < MaxExtractions
    /\ call' = [call EXCEPT
                  !.card = Append(@, card),
                  !.pc = Append(@, IF call.baseSession = 0 THEN "params" ELSE "clone"),
                  !.base = Append(@, call.baseSession)]
    /\ UNCHANGED editor

(* params() resolves: setupAI calls LanguageModel.create and awaits it *)
ParamsResolve(e) ==
    /\ Extracting
    /\ call.pc[e] = "params"
    /\ call' = [call EXCEPT !.pc[e] = "create", !.creates = @ + 1, !.base[e] = call.creates + 1]
    /\ UNCHANGED editor

(* create() resolves: baseSession is assigned and setupAI returns *)
CreateResolves(e) ==
    /\ Extracting
    /\ call.pc[e] = "create"
    /\ call' = [call EXCEPT !.pc[e] = "setup", !.baseSession = call.base[e]]
    /\ UNCHANGED editor

(* params() or create() rejects: setupAI logs a warning and returns *)
SetupFails(e) ==
    /\ Extracting
    /\ call.pc[e] \in {"params", "create"}
    /\ call' = [call EXCEPT !.pc[e] = "setup"]
    /\ UNCHANGED editor

(* getAISession resumes after setupAI: it throws without a base session,   *)
(* else clones the base session of this moment.                            *)
SetupReturns(e) ==
    /\ Extracting
    /\ call.pc[e] = "setup"
    /\ call' = [call EXCEPT
                  !.pc[e] = IF call.baseSession = 0 THEN "failed" ELSE "clone",
                  !.base[e] = call.baseSession]
    /\ UNCHANGED editor

(* clone() resolves: the extraction prompts its session *)
CloneResolves(e) ==
    /\ Extracting
    /\ call.pc[e] = "clone"
    /\ call' = [call EXCEPT !.pc[e] = "prompt"]
    /\ UNCHANGED editor

(* prompt() resolves with JSON: updateReceiptCard(card, data) *)
PromptResolves(e) ==
    /\ Extracting
    /\ call.pc[e] = "prompt"
    /\ call' = [call EXCEPT !.pc[e] = "done", !.shown[call.card[e]] = e]
    /\ UNCHANGED editor

(* clone() or prompt() rejects, or JSON.parse throws: the toast, no update *)
ExtractionFails(e) ==
    /\ Extracting
    /\ call.pc[e] \in {"clone", "prompt"}
    /\ call' = [call EXCEPT !.pc[e] = "failed"]
    /\ UNCHANGED editor

Extractions == 1 .. Len(call.pc)

NextExtract ==
    \/ \E card \in ExtractionCards : StartExtraction(card)
    \/ \E e \in Extractions : ParamsResolve(e)
    \/ \E e \in Extractions : CreateResolves(e)
    \/ \E e \in Extractions : SetupFails(e)
    \/ \E e \in Extractions : SetupReturns(e)
    \/ \E e \in Extractions : CloneResolves(e)
    \/ \E e \in Extractions : PromptResolves(e)
    \/ \E e \in Extractions : ExtractionFails(e)

SpecExtract == InitExtract /\ [][NextExtract]_vars

(* SpecPush: pushAllToYNAB on a list of up to MaxCards receipt cards.  A   *)
(* card is processing or not, its push button disabled or not, and its     *)
(* fields pass prepareTransactionData or not.                              *)
MaxCards == 2

ReceiptCards == [processing : BOOLEAN, disabled : BOOLEAN, valid : BOOLEAN]

InitPush ==
    /\ EditorNotOpen
    /\ \E n \in 1 .. MaxCards : \E cards \in [1 .. n -> ReceiptCards] :
       \E settings \in BOOLEAN, categories \in BOOLEAN :
          call = [fn |-> "pushAllToYNAB", pc |-> "idle", cards |-> cards,
                  before |-> cards, settings |-> settings, categories |-> categories,
                  ready |-> {}, processed |-> {}, synced |-> {},
                  btnPushAll |-> FALSE, toast |-> "none"]

Pushing(pc) == call.fn = "pushAllToYNAB" /\ call.pc = pc

ReadyCards(cards) ==
    { i \in DOMAIN cards : ~cards[i].processing /\ ~cards[i].disabled }

PushReturns(toast) == [call EXCEPT !.pc = "returned", !.toast = toast]

(* From the preparation of the transactions to the await of the POST: the  *)
(* cards with an error are skipped, and every push button of the list is   *)
(* disabled.                                                               *)
PrepareAndPost(c) ==
    LET processed == { i \in c.ready : c.cards[i].valid }
    IN  IF processed = {}
        THEN [c EXCEPT !.pc = "returned", !.toast = "No valid transactions to push."]
        ELSE [c EXCEPT !.pc = "posting", !.processed = processed, !.btnPushAll = TRUE,
                       !.cards = [i \in DOMAIN c.cards |->
                                     [c.cards[i] EXCEPT !.disabled = TRUE]]]

(* The click on Push all, up to its first await or return *)
PushAllClicked ==
    /\ Pushing("idle")
    /\ LET ready == ReadyCards(call.cards)
       IN  call' =
              IF ready = {} THEN PushReturns("No receipts ready to push")
              ELSE IF ~call.settings THEN PushReturns("Please fill in all YNAB settings.")
              ELSE IF ~call.categories THEN [call EXCEPT !.pc = "categories", !.ready = ready]
              ELSE PrepareAndPost([call EXCEPT !.ready = ready])
    /\ UNCHANGED editor

(* fetchYNABCategories resolves, with categories or with none *)
CategoriesFetched(loaded) ==
    /\ Pushing("categories")
    /\ call' = IF loaded THEN PrepareAndPost([call EXCEPT !.categories = TRUE])
               ELSE PushReturns("Could not load YNAB categories. Please check API key.")
    /\ UNCHANGED editor

(* The POST resolves ok: the submitted cards are marked synced *)
PostSucceeds ==
    /\ Pushing("posting")
    /\ call' = [call EXCEPT !.pc = "returned", !.toast = "Successfully pushed",
                            !.synced = call.processed, !.btnPushAll = FALSE]
    /\ UNCHANGED editor

(* The catch block: allPushBtns.forEach(btn => btn.disabled = false) *)
EnableAll(c) == [i \in DOMAIN c.cards |-> [c.cards[i] EXCEPT !.disabled = FALSE]]

(* The POST rejects or answers with an error status *)
PostFails ==
    /\ Pushing("posting")
    /\ call' = [call EXCEPT !.pc = "returned", !.toast = "Bulk push failed",
                            !.cards = EnableAll(call), !.btnPushAll = FALSE]
    /\ UNCHANGED editor

NextPush ==
    \/ PushAllClicked
    \/ \E loaded \in BOOLEAN : CategoriesFetched(loaded)
    \/ PostSucceeds
    \/ PostFails

SpecPush == InitPush /\ [][NextPush]_vars

----------------------------------------------------------------------------
(* Properties *)

InsideImage(e) ==
    /\ 0 <= e.left /\ e.left < e.right /\ e.right <= NaturalWidth
    /\ 0 <= e.top /\ e.top < e.bottom /\ e.bottom <= NaturalHeight

Distance(a, b) == IF a < b THEN b - a ELSE a - b

Lesser(a, b) == IF a < b THEN a ELSE b

(* The step is a mousemove of a resize drag, or of a move drag, in the     *)
(* displayed editor.                                                       *)
ResizeStep ==
    /\ modalOpen /\ isBoxDragging /\ lastEvent' = "mousemove"
    /\ EndsWith(interactionType, "resize")

MoveStep ==
    /\ modalOpen /\ isBoxDragging /\ lastEvent' = "mousemove"
    /\ EndsWith(interactionType, "move")

HasTarget ==
    /\ StartsWith(interactionType, "redaction")
    /\ selectedRedactionIndex \in 0 .. (Len(currentRedactions) - 1)

(* C1: while the editor is displayed the crop box lies inside the image    *)
(* with positive width and height: 0 <= left < right <= naturalWidth and   *)
(* 0 <= top < bottom <= naturalHeight, after any crop move or resize.      *)
CropBoxInsideImage == modalOpen => InsideImage(currentCropBox)

(* A resize by the nw handle with the pointer left of the image: the left  *)
(* edge was stopped at 0.                                                  *)
CropResizedAgainstBorder ==
    /\ modalOpen /\ isBoxDragging /\ lastEvent = "mousemove"
    /\ interactionType = "crop-resize" /\ activeHandle = "nw"
    /\ startX < ImgLeft
    /\ currentCropBox.left = 0

(* C2: while the editor is displayed every redaction has w > 0, h > 0,     *)
(* x >= 0, y >= 0, x + w <= naturalWidth and y + h <= naturalHeight, after *)
(* any draw, redaction move or redaction resize.                           *)
RedactionsInsideImage ==
    modalOpen =>
        \A i \in 1 .. Len(currentRedactions) :
            LET r == currentRedactions[i]
            IN  /\ r.w > 0 /\ r.h > 0 /\ r.x >= 0 /\ r.y >= 0
                /\ r.x + r.w <= NaturalWidth /\ r.y + r.h <= NaturalHeight

(* The edges of f that handle h does not name are those of e *)
UnnamedEdgesKept(h, e, f) ==
    /\ ~Includes(h, "n") => f.top = e.top
    /\ ~Includes(h, "s") => f.bottom = e.bottom
    /\ ~Includes(h, "w") => f.left = e.left
    /\ ~Includes(h, "e") => f.right = e.right

(* C3: one resize step with handle h on a box inside the image leaves      *)
(* every edge whose compass letter is not in h unchanged, for the crop box *)
(* and for a redaction (edges y, y + h, x, x + w).                         *)
ResizeKeepsUnnamedEdges ==
    [][ResizeStep =>
        /\ (interactionType = "crop-resize" /\ InsideImage(currentCropBox))
              => UnnamedEdgesKept(activeHandle, currentCropBox, currentCropBox')
        /\ (HasTarget /\ InsideImage(Edges(currentRedactions[selectedRedactionIndex + 1])))
              => UnnamedEdgesKept(activeHandle,
                                  Edges(currentRedactions[selectedRedactionIndex + 1]),
                                  Edges(currentRedactions'[selectedRedactionIndex + 1]))
      ]_vars

(* A redaction over the full image whose top edge was dragged down by the  *)
(* n handle to the middle of the image.                                    *)
RedactionTopResized ==
    /\ modalOpen /\ isBoxDragging /\ lastEvent = "mousemove"
    /\ interactionType = "redaction-resize" /\ activeHandle = "n"
    /\ HasTarget
    /\ currentRedactions[selectedRedactionIndex + 1] =
          [x |-> 0, y |-> NaturalHeight - MinBoxSize,
           w |-> NaturalWidth, h |-> MinBoxSize]

(* C4: a resize step never moves an edge past the opposite edge minus      *)
(* 10 px: a crop box inside the image and at least 10 px wide and high     *)
(* stays at least 10 px wide and high, and a redaction keeps at least      *)
(* 10 px in each dimension the handle names.                               *)
ResizeKeepsMinimumSize ==
    [][ResizeStep =>
        /\ (interactionType = "crop-resize" /\ ValidCrop(currentCropBox))
              => /\ currentCropBox'.right - currentCropBox'.left >= MinBoxSize
                 /\ currentCropBox'.bottom - currentCropBox'.top >= MinBoxSize
        /\ HasTarget
              => /\ (Includes(activeHandle, "n") \/ Includes(activeHandle, "s"))
                       => currentRedactions'[selectedRedactionIndex + 1].h >= MinBoxSize
                 /\ (Includes(activeHandle, "w") \/ Includes(activeHandle, "e"))
                       => currentRedactions'[selectedRedactionIndex + 1].w >= MinBoxSize
      ]_vars

(* The s handle of a crop box of minimum height was dragged to the top of  *)
(* the window, above the box's top edge, and the bottom edge stayed 10 px  *)
(* below the top edge.                                                     *)
CropResizeStoppedAtMinimum ==
    /\ modalOpen /\ isBoxDragging /\ lastEvent = "mousemove"
    /\ interactionType = "crop-resize" /\ activeHandle = "s"
    /\ startY = ImgTop
    /\ currentCropBox.top > 0
    /\ currentCropBox.bottom = currentCropBox.top + MinBoxSize

(* The position the drag-start snapshot and the pointer give a move *)
ClampedFromAnchor ==
    LET scaleX == NaturalWidth \div DisplayWidth
        scaleY == NaturalHeight \div DisplayHeight
        e == Edges(anchorRect)
        p0 == Position(anchorRect)
        px == p0[1] + (startX - anchorX) * scaleX
        py == p0[2] + (startY - anchorY) * scaleY
        maxX == NaturalWidth - (e.right - e.left)
        maxY == NaturalHeight - (e.bottom - e.top)
    IN  << IF px < 0 THEN 0 ELSE Lesser(px, maxX),
           IF py < 0 THEN 0 ELSE Lesser(py, maxY) >>

MoveDragMoved ==
    /\ isBoxDragging /\ lastEvent = "mousemove"
    /\ EndsWith(interactionType, "move")
    /\ Target # NoRect

(* C5: during a move drag that started at position P0, after every         *)
(* mousemove the box is at clamp(P0 + (pointer - pointer at mousedown) x   *)
(* scale), whatever path the pointer took.                                 *)
MoveFollowsDragStart ==
    MoveDragMoved => Position(Target) = ClampedFromAnchor

MoveKeepsSize ==
    [][MoveStep =>
        /\ interactionType = "crop-move"
              => /\ currentCropBox'.right - currentCropBox'.left
                       = currentCropBox.right - currentCropBox.left
                 /\ currentCropBox'.bottom - currentCropBox'.top
                       = currentCropBox.bottom - currentCropBox.top
        /\ HasTarget
              => /\ currentRedactions'[selectedRedactionIndex + 1].w
                       = currentRedactions[selectedRedactionIndex + 1].w
                 /\ currentRedactions'[selectedRedactionIndex + 1].h
                       = currentRedactions[selectedRedactionIndex + 1].h
      ]_vars

(* A crop box narrower than the image was moved with the pointer left of   *)
(* the image and stopped at the left border.                               *)
CropMoveClampedAtBorder ==
    /\ modalOpen /\ isBoxDragging /\ lastEvent = "mousemove"
    /\ interactionType = "crop-move"
    /\ startX < ImgLeft
    /\ currentCropBox.left = 0
    /\ currentCropBox.right < NaturalWidth

(* The step is the mouseup at (px,py) that ends a draw drag *)
DrawEnds(px, py) ==
    /\ modalOpen /\ isBoxDragging /\ interactionType = "draw-redaction"
    /\ MouseUp(px, py) /\ lastEvent' = "mouseup"

(* C8: the mouseup that ends a draw drag, with w = |endX - startX| and     *)
(* h = |endY - startY| in display px, appends exactly one redaction, the   *)
(* drawn rectangle in image pixels, after the unchanged existing ones when *)
(* w > 5 and h > 5, and leaves the list unchanged otherwise.               *)
DrawAppendsOneOrNothing ==
    [][\A px \in ClientXs, py \in ClientYs :
        DrawEnds(px, py) =>
            IF Distance(px, startX) > 5 /\ Distance(py, startY) > 5
            THEN /\ Len(currentRedactions') = Len(currentRedactions) + 1
                 /\ SubSeq(currentRedactions', 1, Len(currentRedactions))
                       = currentRedactions
                 /\ currentRedactions'[Len(currentRedactions) + 1].x * DisplayWidth
                       = (Lesser(px, startX) - ImgLeft) * NaturalWidth
                 /\ currentRedactions'[Len(currentRedactions) + 1].y * DisplayHeight
                       = (Lesser(py, startY) - ImgTop) * NaturalHeight
                 /\ currentRedactions'[Len(currentRedactions) + 1].w * DisplayWidth
                       = Distance(px, startX) * NaturalWidth
                 /\ currentRedactions'[Len(currentRedactions) + 1].h * DisplayHeight
                       = Distance(py, startY) * NaturalHeight
            ELSE currentRedactions' = currentRedactions
      ]_vars

(* A second redaction was drawn after an existing one *)
DrawnAfterExisting ==
    /\ modalOpen /\ lastEvent = "mouseup" /\ ~isBoxDragging
    /\ Len(currentRedactions) = 2
    /\ cardRedactions = JsonRedactions(currentRedactions)

(* C9: a mouseup in a Dragging state leaves the machine Idle               *)
(* (isBoxDragging false, interactionType and activeHandle null), and a     *)
(* mousemove while Idle changes no crop or redaction value.                *)
MouseUpEndsDragAndIdleIgnoresMove ==
    [][/\ (isBoxDragging /\ lastEvent' = "mouseup")
             => /\ isBoxDragging' = FALSE
                /\ interactionType' = null
                /\ activeHandle' = null
       /\ (~isBoxDragging /\ lastEvent' = "mousemove")
             => UNCHANGED << currentCropBox, currentRedactions,
                             cardBounds, cardRedactions >>
      ]_vars

(* A drag was ended by a mouseup and a mousemove followed *)
MovedAfterDragEnded ==
    /\ lastEvent = "mousemove" /\ ~isBoxDragging
    /\ interactionType = null /\ activeHandle = null
    /\ IsFinite(startX)

(* C10: dismissing the editor while a drag is active ends the drag         *)
(* (isBoxDragging becomes false), and a mousemove after the editor was     *)
(* dismissed changes no geometry, in the session or on the card.           *)
CancelEndsDrag ==
    [][/\ (isBoxDragging /\ lastEvent' = "dismiss") => isBoxDragging' = FALSE
       /\ (~modalOpen /\ lastEvent' = "mousemove")
             => UNCHANGED << currentCropBox, currentRedactions,
                             cardBounds, cardRedactions >>
      ]_vars

(* C11: while an interaction is active, a further pointer-down handled by  *)
(* startBoxInteraction starts no new interaction: the mode, handle,        *)
(* selected index and anchor position stay as they were.                   *)
PointerDownIgnoredWhileDragging ==
    [][(isBoxDragging /\ lastEvent' = "mousedown")
          => UNCHANGED << isBoxDragging, interactionType, activeHandle,
                          selectedRedactionIndex, startX, startY >>
      ]_vars

(* C12: once the editor is closed by the dismiss button or a backdrop      *)
(* click, the card's persisted crop and persisted redactions are what they *)
(* were when the editor opened.                                            *)
CancelDiscardsEdits ==
    ~modalOpen =>
        /\ cardBounds = opened.bounds
        /\ cardRedactions = opened.redactions

(* C13: deleteSelectedRedaction with selection i, 0 <= i < list length,    *)
(* removes exactly the i-th redaction, keeps the others with their values  *)
(* and order, and sets the selection to -1; with selection -1 it changes   *)
(* neither the list nor the persisted list.                                *)
DeleteRemovesSelected ==
    [][lastEvent' = "delete" =>
        IF selectedRedactionIndex = -1
        THEN UNCHANGED << currentRedactions, cardRedactions, selectedRedactionIndex >>
        ELSE selectedRedactionIndex \in 0 .. (Len(currentRedactions) - 1) =>
               /\ Len(currentRedactions') = Len(currentRedactions) - 1
               /\ \A k \in 1 .. Len(currentRedactions') :
                     currentRedactions'[k] =
                        IF k <= selectedRedactionIndex
                        THEN currentRedactions[k]
                        ELSE currentRedactions[k + 1]
               /\ selectedRedactionIndex' = -1
      ]_vars

(* A delete left two different redactions of a longer list *)
DeletedOneOfSeveral ==
    /\ lastEvent = "delete"
    /\ selectedRedactionIndex = -1
    /\ Len(currentRedactions) = 2
    /\ currentRedactions[1] # currentRedactions[2]
    /\ cardRedactions = JsonRedactions(currentRedactions)

(* C14: clearAllRedactions, whatever the list and the selection, leaves    *)
(* the redaction list empty, the selection at -1 and the card's persisted  *)
(* redaction list empty.                                                   *)
ClearEmptiesEverything ==
    [][lastEvent' = "clear" =>
        /\ currentRedactions' = << >>
        /\ selectedRedactionIndex' = -1
        /\ cardRedactions' = << >>
      ]_vars

(* Clear all has run and the list, the selection and the persisted list    *)
(* are empty.                                                              *)
ClearedAll ==
    /\ lastEvent = "clear"
    /\ currentRedactions = << >>
    /\ selectedRedactionIndex = -1
    /\ renderedSelected = -1
    /\ cardRedactions = << >>

(* C15: with no drag in progress, after a pointer-down on empty image      *)
(* space in redact mode, and after a switch from redact mode to crop mode, *)
(* no redaction is selected (selectedRedactionIndex = -1) and no redaction *)
(* is rendered with resize handles.                                        *)
SelectionClearedOnEmptySpaceAndModeSwitch ==
    [][(/\ redactMode /\ ~isBoxDragging
        /\ \/ lastEvent' = "mousedown" /\ interactionType' = "draw-redaction"
           \/ lastEvent' = "mode-crop")
          => /\ selectedRedactionIndex' = -1
             /\ renderedSelected' = -1
      ]_vars

(* The rectangle drawn in a call of SpecScale, in display pixels relative  *)
(* to the image as it was rendered when the rectangle was drawn.           *)
DrawnDisplayRect ==
    [x |-> Lesser(call.from[1], call.to[1]) - call.drawnAt.left,
     y |-> Lesser(call.from[2], call.to[2]) - call.drawnAt.top,
     w |-> Distance(call.from[1], call.to[1]),
     h |-> Distance(call.from[2], call.to[2])]

(* C16: a redaction drawn over display rectangle D with the image rendered *)
(* at scale s is stored as D / s, in image pixels; a later change of the   *)
(* rendered size changes no stored value; rendering the stored redaction   *)
(* at scale s' gives D * s' / s, which is D again when s' = s.             *)
StoredInImageSpace ==
    (call.fn = "scale" /\ call.stored # NoRect) =>
        LET D == DrawnDisplayRect
            r == call.stored
            w == call.drawnAt.width
            h == call.drawnAt.height
        IN  /\ QMul(r.x, QInt(w)) = QInt(D.x * NaturalWidth)
            /\ QMul(r.y, QInt(h)) = QInt(D.y * NaturalHeight)
            /\ QMul(r.w, QInt(w)) = QInt(D.w * NaturalWidth)
            /\ QMul(r.h, QInt(h)) = QInt(D.h * NaturalHeight)
            /\ call.shown # NoRect =>
                  /\ QMul(call.shown.left, QInt(w)) = QInt(D.x * call.shownAt.width)
                  /\ QMul(call.shown.top, QInt(h)) = QInt(D.y * call.shownAt.height)
                  /\ QMul(call.shown.width, QInt(w)) = QInt(D.w * call.shownAt.width)
                  /\ QMul(call.shown.height, QInt(h)) = QInt(D.h * call.shownAt.height)
                  /\ (call.shownAt.width = w /\ call.shownAt.height = h) =>
                        call.shown = [left |-> QInt(D.x), top |-> QInt(D.y),
                                      width |-> QInt(D.w), height |-> QInt(D.h)]

(* A redaction stored with a fractional coordinate was rendered at another *)
(* size than it was drawn at, after the rendered size changed.             *)
RenderedAtAnotherScale ==
    /\ call.fn = "scale"
    /\ call.stored # NoRect
    /\ call.stored.w.den # 1
    /\ call.shown # NoRect
    /\ call.shownAt.width # call.drawnAt.width
    /\ call.rect # call.shownAt

(* The pixels of a buffer, and those with R, G or B below 235 *)
PixelsOf(img) == (0 .. (img.width - 1)) \X (0 .. (img.height - 1))

Dark(img, p) ==
    \E c \in 0 .. 2 : img.data[(p[2] * img.width + p[1]) * 4 + c] < 235

(* C17: for every buffer in which every pixel has R, G and B all >= 235,   *)
(* findContentBounds returns top = 0, left = 0, bottom = height,           *)
(* right = width.                                                          *)
WhiteBufferGivesFullFrame ==
    (/\ call.fn = "findContentBounds" /\ call.result # NoRect
     /\ \A p \in PixelsOf(call.imageData) : ~Dark(call.imageData, p))
        => call.result = [top |-> 0, left |-> 0,
                          bottom |-> call.imageData.height,
                          right |-> call.imageData.width]

(* findContentBounds returned for a buffer of several rows and columns     *)
(* whose pixels are all at the threshold value 235.                        *)
ReturnedForAllThresholdBuffer ==
    /\ call.fn = "findContentBounds" /\ call.result # NoRect
    /\ call.imageData.width > 1 /\ call.imageData.height > 1
    /\ \A p \in PixelsOf(call.imageData) : ~Dark(call.imageData, p)
    /\ call.imageData.data[0] = 235

AutoCropInsideImageAroundContent ==
    (call.fn = "optimizeImageForAI" /\ "left" \in DOMAIN call.result) =>
        LET r == call.result
            scale == QMin(QInt(1), Q(1500, Larger(call.width, call.height)))
            d == call.bounds
        IN  /\ QLeq(QInt(0), r.left) /\ QLess(r.left, r.right)
            /\ QLeq(r.right, QInt(call.width))
            /\ QLeq(QInt(0), r.top) /\ QLess(r.top, r.bottom)
            /\ QLeq(r.bottom, QInt(call.height))
            /\ QLeq(r.left, QDiv(QInt(d.left), scale))
            /\ QLeq(QDiv(QInt(d.right), scale), r.right)
            /\ QLeq(r.top, QDiv(QInt(d.top), scale))
            /\ QLeq(QDiv(QInt(d.bottom), scale), r.bottom)

(* An image above the analysis limit whose content box was widened at the  *)
(* right to a fractional coordinate and clamped at the top and the left.   *)
AutoCropScaledAndClamped ==
    /\ call.fn = "optimizeImageForAI" /\ "left" \in DOMAIN call.result
    /\ Larger(call.width, call.height) > 1500
    /\ call.bounds.top > 0 /\ call.result.top = QInt(0)
    /\ call.bounds.left > 0 /\ call.result.left = QInt(0)
    /\ call.result.right.den # 1
    /\ QLess(call.result.right, QInt(call.width))

(* C20, as stated: for every crop rectangle R inside the image and every   *)
(* redaction list, the buffer composed by applyAdjustments has width       *)
(* R.right - R.left and height R.bottom - R.top; with a null crop it has   *)
(* the source image's width and height.                                    *)
BufferHasCropSize ==
    (call.fn = "applyAdjustments" /\ call.result # NoRect) =>
        IF call.bounds = NoRect
        THEN call.result.width = call.width /\ call.result.height = call.height
        ELSE /\ QInt(call.result.width) = QSub(call.bounds.right, call.bounds.left)
             /\ QInt(call.result.height) = QSub(call.bounds.bottom, call.bounds.top)

(* C20, amended: the buffer's width and height are the whole parts of      *)
(* R.right - R.left and R.bottom - R.top (the differences themselves when  *)
(* they are whole numbers), whatever the redaction list; with a null crop  *)
(* they are the source image's width and height.                           *)
BufferHasWholeCropSize ==
    (call.fn = "applyAdjustments" /\ call.result # NoRect) =>
        IF call.bounds = NoRect
        THEN call.result.width = call.width /\ call.result.height = call.height
        ELSE LET w == QSub(call.bounds.right, call.bounds.left)
                 h == QSub(call.bounds.bottom, call.bounds.top)
             IN  /\ call.result.width = w.num \div w.den
                 /\ call.result.height = h.num \div h.den
                 /\ w.den = 1 => call.result.width = w.num
                 /\ h.den = 1 => call.result.height = h.num

(* A buffer composed from a crop with a fractional width and a whole       *)
(* height, with two redactions.                                            *)
ComposedFromFractionalCrop ==
    /\ call.fn = "applyAdjustments" /\ call.result # NoRect
    /\ call.bounds # NoRect
    /\ Len(call.redactions) = 2
    /\ QSub(call.bounds.right, call.bounds.left) = Q(3, 2)
    /\ QSub(call.bounds.bottom, call.bounds.top) = QInt(2)
    /\ call.result.width = 1 /\ call.result.height = 2

(* C21: in the buffer composed by applyAdjustments, output pixel (px, py)  *)
(* is black when the source position (px + crop.left, py + crop.top) lies  *)
(* inside at least one redaction rectangle, and otherwise equals the       *)
(* source pixel at that position; a redaction wholly outside the crop      *)
(* changes no output pixel.                                                *)
PositionInside(r, x, y) ==
    /\ QLeq(r.x, QInt(x)) /\ QLess(QInt(x), QAdd(r.x, r.w))
    /\ QLeq(r.y, QInt(y)) /\ QLess(QInt(y), QAdd(r.y, r.h))

OutsideCrop(r, b) ==
    \/ QLeq(QAdd(r.x, r.w), QInt(b.sx)) \/ QLeq(QInt(b.sx + b.width), r.x)
    \/ QLeq(QAdd(r.y, r.h), QInt(b.sy)) \/ QLeq(QInt(b.sy + b.height), r.y)

RedactedPixelsBlackOthersSource ==
    (call.fn = "applyAdjustments" /\ "pixels" \in DOMAIN call.result) =>
        LET b == call.result
        IN  /\ \A p \in DOMAIN b.pixels :
                  LET x == p[1] + b.sx
                      y == p[2] + b.sy
                  IN  IF \E i \in DOMAIN call.redactions :
                            PositionInside(call.redactions[i], x, y)
                      THEN b.pixels[p].kind = "black"
                      ELSE b.pixels[p] = [kind |-> "source", at |-> << x, y >>]
            /\ (\A i \in DOMAIN call.redactions :
                    OutsideCrop(call.redactions[i], b))
                  => \A p \in DOMAIN b.pixels : b.pixels[p].kind = "source"

(* C22: on retry, the primary raster and every chunk handed to the         *)
(* extraction are produced from the buffer after all redaction fills: no   *)
(* raster passed to runAIExtraction by handleRetryAI holds a source pixel  *)
(* that lies inside one of the redaction rectangles used for that retry.   *)
HandedOver == call.fn = "handleRetryAI" /\ call.pc \in {"extracting", "prompted", "unprompted"}

(* The pixel of the painted canvas that shows the source position (x, y) *)
PixelOf(canvas, x, y) ==
    LET sx == IF canvas.bounds = NoRect THEN 0 ELSE canvas.bounds.left
        sy == IF canvas.bounds = NoRect THEN 0 ELSE canvas.bounds.top
        filled == [i \in 1 .. canvas.fills |->
                     [x |-> QInt(canvas.redactions[i].x),
                      y |-> QInt(canvas.redactions[i].y),
                      w |-> QInt(canvas.redactions[i].w),
                      h |-> QInt(canvas.redactions[i].h)]]
    IN  FillAll(SourcePixel(x, y), filled, sx, sy, x - sx, y - sy)

RastersOf(c) == {c.blob} \cup { c.chunks[k] : k \in DOMAIN c.chunks }

RetryRastersAreRedacted ==
    HandedOver =>
        \A raster \in RastersOf(call) \ {NullBlob} :
            /\ raster.canvas.redactions = call.passed.redactions
            /\ raster.canvas.fills = Len(call.passed.redactions)
            /\ \A i \in DOMAIN call.passed.redactions :
                  LET r == call.passed.redactions[i]
                  IN  \A x \in {r.x, r.x + r.w - 1}, y \in {r.y, r.y + r.h - 1} :
                         PixelOf(raster.canvas, x, y).kind # "source"

(* A tall crop with a redaction was composed and handed over in two chunks *)
RedactedChunksHandedOver ==
    /\ HandedOver
    /\ Len(call.chunks) = 2
    /\ NullBlob \notin RastersOf(call)
    /\ Len(call.passed.redactions) = 1
    /\ call.chunks[2].shape.kind = "chunk"

(* C23, as stated: the number of chunks produced for a composed buffer of  *)
(* width w and height h is 1 when h/w <= 1.8, 2 when 1.8 < h/w <= 3.2 and  *)
(* 3 when h/w > 3.2; it is always between 1 and 3, and when it is 1 the    *)
(* sole chunk is the primary raster itself.                                *)
CountFor(ratio) ==
    IF QLeq(ratio, Q(18, 10)) THEN 1 ELSE IF QLeq(ratio, Q(32, 10)) THEN 2 ELSE 3

Chunked == call.fn = "createVerticalChunks" /\ call.result # NoRect

ChunkCountByBufferRatio ==
    Chunked =>
        LET n == Len(call.result.chunks)
            w == call.result.blob.width
            h == call.result.blob.height
        IN  /\ n = CountFor(Q(h, w))
            /\ 1 <= n /\ n <= 3
            /\ n = 1 => call.result.chunks[1] = call.result.blob

(* C23, amended: the ratio compared with 1.8 and 3.2 is that of the crop's *)
(* height and width as computed, which is the buffer's h/w when both are   *)
(* whole numbers; the count is between 1 and 3, and when it is 1 the sole  *)
(* chunk is the primary raster itself.                                     *)
ChunkCountByCropRatio ==
    Chunked =>
        LET n == Len(call.result.chunks)
        IN  /\ n = CountFor(QDiv(call.sh, call.sw))
            /\ (call.sw.den = 1 /\ call.sh.den = 1) =>
                  n = CountFor(Q(call.result.blob.height, call.result.blob.width))
            /\ 1 <= n /\ n <= 3
            /\ n = 1 => call.result.chunks[1] = call.result.blob

(* Three chunks of a crop with a fractional width *)
ThreeChunksOfFractionalCrop ==
    /\ Chunked
    /\ call.sw = Q(41, 2) /\ call.sh = QInt(70)
    /\ Len(call.result.chunks) = 3

(* C24: when createVerticalChunks produces n in {2, 3} chunks of a buffer  *)
(* of height H, the chunks are emitted top to bottom, chunk 0 starts at    *)
(* row 0, the last chunk ends exactly at row H, every chunk has the full   *)
(* buffer width, each consecutive pair of chunks overlaps by 15% of the    *)
(* chunk height, and every row of the buffer is in at least one chunk.     *)
ChunkEnd(c) == QAdd(c.yStart, QInt(c.height))

ChunksCoverBufferWithOverlap ==
    (Chunked /\ Len(call.result.chunks) >= 2) =>
        LET chunks == call.result.chunks
            n == Len(chunks)
            H == call.result.blob.height
        IN  /\ \A k \in 1 .. (n - 1) : QLess(chunks[k].yStart, chunks[k + 1].yStart)
            /\ chunks[1].yStart = QInt(0)
            /\ ChunkEnd(chunks[n]) = QInt(H)
            /\ \A k \in 1 .. n : chunks[k].width = call.result.blob.width
            /\ \A k \in 1 .. (n - 1) :
                  QSub(ChunkEnd(chunks[k]), chunks[k + 1].yStart)
                     = QMul(Q(15, 100), QInt(chunks[k].height))
            /\ \A y \in 0 .. (H - 1) :
                  \E k \in 1 .. n : /\ QLeq(chunks[k].yStart, QInt(y))
                                    /\ QLeq(QInt(y + 1), ChunkEnd(chunks[k]))

(* C25: if optimizeImageForAI rejects for a file during the folder scan,   *)
(* processReceipt still creates the card and runs the extraction, with the *)
(* unmodified original file as the single chunk and the crop recorded as   *)
(* null.                                                                   *)
UndecodableFileFallsBack ==
    (call.fn = "processReceipt" /\ call.optimize = "rejected") =>
        /\ call.card # NoRect
        /\ call.card.bounds = "null"
        /\ call.chunks = << [kind |-> "file", width |-> call.file.width,
                             height |-> call.file.height] >>
        /\ call.pc \in {"extracting", "prompted", "unprompted"}
        /\ call.pc = "prompted" =>
              \A k \in DOMAIN call.prompts : call.prompts[k].image = call.chunks

(* The extraction was prompted with the original file after a rejection *)
PromptedWithOriginalFile ==
    /\ call.fn = "processReceipt" /\ call.optimize = "rejected"
    /\ call.pc = "prompted" /\ Len(call.prompts) = 1
    /\ call.file.width = 3000

(* C26: if the source image cannot be decoded during a retry, the retry    *)
(* falls back to the original image and does not block: handleRetryAI      *)
(* eventually completes, the retrying indicator is hidden and the Retry    *)
(* button is shown again.                                                  *)
UndecodableRetryCompletes ==
    (call.fn = "handleRetryAI" /\ call.pc = "undecoded")
        ~> (call.fn = "handleRetryAI" /\ call.button = "block"
              /\ call.indicator = "none")

(* C27: if a raster encode yields no blob during a retry (the primary      *)
(* output or any chunk), the edit-commit fails as a whole: handleRetryAI   *)
(* starts no extraction, leaves the editor open and the card's preview     *)
(* unchanged, reports the failure, and makes Retry available again.        *)
RetryResumed ==
    call.fn = "handleRetryAI"
      /\ call.pc \in {"failed", "extracting", "prompted", "unprompted"}

MissingBlobFailsTheRetry ==
    (RetryResumed /\ NullBlob \in RastersOf(call)) =>
        /\ call.pc = "failed"
        /\ call.prompts = << >>
        /\ call.preview = "optimized"
        /\ call.toast = "Failed to process image adjustments"
        /\ call.button = "block" /\ call.indicator = "none"

(* C28: a crop rectangle or redaction handed to the editor with            *)
(* non-positive width or height, or with coordinates outside the image     *)
(* (bounds given to setupCroppingUI, redactions given to                   *)
(* setActiveRedactionCard or renderRedactions), is rejected: the editor's  *)
(* current crop and redaction list keep their previous valid values.       *)
AcceptableCrop(b) ==
    /\ 0 <= b.left /\ b.left < b.right /\ b.right <= NaturalWidth
    /\ 0 <= b.top /\ b.top < b.bottom /\ b.bottom <= NaturalHeight

InvalidGeometryRejected ==
    [][ /\ (call'.fn = "setupCroppingUI" /\ call'.bounds # NoRect
              /\ ~AcceptableCrop(call'.bounds))
            => currentCropBox' = currentCropBox
        /\ (call'.fn \in {"setActiveRedactionCard", "renderRedactions"}
              /\ \E i \in DOMAIN call'.redactions :
                    ~ValidRedaction(call'.redactions[i]))
            => currentRedactions' = currentRedactions ]_vars

(* C29: the geometry composed by a retry is the crop and the redaction     *)
(* list persisted at the instant Retry was clicked: a pointer interaction, *)
(* delete or clear-all that runs while the image decode or a raster encode *)
(* of that retry is pending does not change the rasters it produces.       *)
RetryComposesGeometryAtClick ==
    [][ /\ (call.fn = "none" /\ call'.fn = "handleRetryAI")
            => call'.passed = [bounds |-> cardBounds, redactions |-> cardRedactions]
        /\ (call.fn = "handleRetryAI" /\ call'.fn = "handleRetryAI")
            => /\ call'.passed = call.passed
               /\ \A raster \in RastersOf(call) \ {NullBlob, NoRect} :
                     raster \in RastersOf(call')
               /\ \A raster \in RastersOf(call') \ {NullBlob, NoRect} :
                     /\ raster.canvas.bounds = call.passed.bounds
                     /\ raster.canvas.redactions = call.passed.redactions ]_vars

(* Two chunks were produced with the redaction of the click although the   *)
(* card's redactions were changed while the retry was pending.             *)
EditedWhileRetryPending ==
    /\ RetryResumed /\ Len(call.chunks) = 2
    /\ NullBlob \notin RastersOf(call)
    /\ Len(call.passed.redactions) = 1
    /\ call.passed.redactions # cardRedactions

(* C30: for every hand-off of k chunks (1 <= k <= 3) to the extraction,    *)
(* runAIExtraction issues exactly k model prompts, one per chunk, each     *)
(* with that single chunk as its image input.                              *)
OnePromptPerChunk ==
    (call.fn \in {"handleRetryAI", "processReceipt"} /\ call.pc = "prompted") =>
        /\ Len(call.prompts) = Len(call.chunks)
        /\ \A k \in DOMAIN call.prompts : call.prompts[k].image = call.chunks[k]

(* C31: dedupe returns the subsequence of its input made of the first      *)
(* occurrence of each value under the key 'string form, trimmed,           *)
(* lower-cased', in input order, with null and undefined entries dropped;  *)
(* for ["Foo", "foo ", "Bar"] the result is ["Foo", "Bar"].                *)
Present(item) == item.type \in {"string", "number"}

(* Characters of the string form without the spaces around it, letters     *)
(* compared without case.                                                  *)
SameKey(a, b) ==
    LET s == StringOf(a)
        t == StringOf(b)
        inner(u) == { i \in 1 .. Len(u) :
                        /\ \E j \in 1 .. i : u[j] # " "
                        /\ \E j \in i .. Len(u) : u[j] # " " }
        fold(c) == IF c \in {"F", "f"} THEN "f" ELSE IF c \in {"O", "o"} THEN "o"
                   ELSE IF c \in {"B", "b"} THEN "b" ELSE IF c \in {"A", "a"} THEN "a"
                   ELSE IF c \in {"R", "r"} THEN "r" ELSE c
        first(u) == IF inner(u) = {} THEN 1 ELSE CHOOSE i \in inner(u) : \A j \in inner(u) : i <= j
    IN  /\ Cardinality(inner(s)) = Cardinality(inner(t))
        /\ \A k \in 0 .. (Cardinality(inner(s)) - 1) :
              fold(s[first(s) + k]) = fold(t[first(t) + k])

FirstOccurrences(arr) ==
    { i \in 1 .. Len(arr) :
        /\ Present(arr[i])
        /\ \A j \in 1 .. (i - 1) : Present(arr[j]) => ~SameKey(arr[j], arr[i]) }

RECURSIVE Restricted(_, _, _)
Restricted(arr, keep, i) ==
    IF i > Len(arr) THEN << >>
    ELSE (IF i \in keep THEN << arr[i] >> ELSE << >>) \o Restricted(arr, keep, i + 1)

DedupeKeepsFirstOccurrences ==
    (call.fn = "dedupe" /\ call.returned) =>
        /\ call.result = Restricted(call.arr, FirstOccurrences(call.arr), 1)
        /\ call.arr = << Str(<< "F", "o", "o" >>), Str(<< "f", "o", "o", " " >>),
                         Str(<< "B", "a", "r" >>) >>
              => call.result = << Str(<< "F", "o", "o" >>), Str(<< "B", "a", "r" >>) >>

(* dedupe has returned for ["Foo", "foo ", "Bar"] *)
DedupedFooFooBar ==
    /\ call.fn = "dedupe"
    /\ call.returned
    /\ call.arr = << Str(<< "F", "o", "o" >>), Str(<< "f", "o", "o", " " >>),
                     Str(<< "B", "a", "r" >>) >>
    /\ call.result = << Str(<< "F", "o", "o" >>), Str(<< "B", "a", "r" >>) >>

(* C32: normalizeDate maps "2026年01月01日", "2026/01/01" and "26.1.1" each  *)
(* to "2026-01-01" and maps "13/45/2026" to the empty string: slash, dot   *)
(* and CJK markers are equivalent separators, month and day are            *)
(* zero-padded, and a 2-digit year is prefixed with 20.                    *)
NormalizeDateOf(dateStr) == call.fn = "normalizeDate" /\ call.returned /\ call.dateStr = dateStr

Date20260101 == << "2", "0", "2", "6", "-", "0", "1", "-", "0", "1" >>

Separated(style) == style[1] # << >> /\ style[2] # << >>

NormalizeDateExamples ==
    /\ NormalizeDateOf(<< "2", "0", "2", "6", "nen", "0", "1", "gatsu", "0", "1", "nichi" >>)
          => call.result = Date20260101
    /\ NormalizeDateOf(<< "2", "0", "2", "6", "/", "0", "1", "/", "0", "1" >>)
          => call.result = Date20260101
    /\ NormalizeDateOf(<< "2", "6", ".", "1", ".", "1" >>) => call.result = Date20260101
    /\ NormalizeDateOf(<< "1", "3", "/", "4", "5", "/", "2", "0", "2", "6" >>)
          => call.result = << >>
    /\ (call.fn = "normalizeDate" /\ call.returned /\ Separated(call.style)) =>
          /\ call.result =
                NormalizeDate(Written(call.tokens, << << "-" >>, << "-" >>, << >> >>),
                              call.lenient)
          /\ (call.result # << >> /\ \A i \in 1 .. 3 : call.tokens[i] # << >>) =>
                LET two(t) == IF Len(t) = 1 THEN << "0" >> \o t ELSE t
                    year(t) == IF Len(t) = 2 THEN << "2", "0" >> \o t ELSE t
                IN  call.result = year(call.tokens[1]) \o << "-" >> \o two(call.tokens[2])
                                     \o << "-" >> \o two(call.tokens[3])

(* "26.1.1" has been normalized to "2026-01-01" *)
ShortDottedDateNormalized ==
    NormalizeDateOf(<< "2", "6", ".", "1", ".", "1" >>) /\ call.result = Date20260101

(* C33: normalizeDate takes as the year the 4-digit token wherever it      *)
(* occurs among the separated parts: a calendar-valid date written with    *)
(* its 4-digit year last (e.g. "01/02/2026") normalizes to a non-empty     *)
(* YYYY-MM-DD string whose year is that token.                             *)
YearLastDate ==
    /\ call.fn = "normalizeDate"
    /\ Separated(call.style)
    /\ Len(call.tokens[3]) = 4
    /\ \A i \in 1 .. 2 : Len(call.tokens[i]) \in 1 .. 2
    /\ LET a == NumberOf(call.tokens[1])
           b == NumberOf(call.tokens[2])
           y == NumberOf(call.tokens[3])
       IN  \/ a \in 1 .. 12 /\ b \in 1 .. DaysInMonth(y, a)
           \/ b \in 1 .. 12 /\ a \in 1 .. DaysInMonth(y, b)

YearTakenWhereverItStands ==
    (YearLastDate /\ call.returned) =>
        /\ Len(call.result) = 10
        /\ SubSeq(call.result, 1, 4) = call.tokens[3]
        /\ call.result[5] = "-" /\ call.result[8] = "-"

(* C34: in every reachable state of the editor, selectedRedactionIndex is  *)
(* -1 or an index of currentRedactions, including after a different card   *)
(* is opened with setActiveRedactionCard or a different list is passed to  *)
(* renderRedactions, so delete can only remove a redaction the user        *)
(* selected in the currently open session.                                 *)
SelectionIndexesCurrentList ==
    \/ selectedRedactionIndex = -1
    \/ 0 <= selectedRedactionIndex /\ selectedRedactionIndex < Len(currentRedactions)

DragMutatesOnlyItsTarget ==
    [][ lastEvent' = "mousemove" =>
          /\ StartsWith(interactionType, "redaction") =>
                /\ currentCropBox' = currentCropBox
                /\ Len(currentRedactions') = Len(currentRedactions)
                /\ \A k \in 1 .. Len(currentRedactions) :
                      k # selectedRedactionIndex + 1
                         => currentRedactions'[k] = currentRedactions[k]
          /\ StartsWith(interactionType, "crop") =>
                currentRedactions' = currentRedactions ]_vars

(* The selected one of two different redactions was moved or resized by   *)
(* the last mousemove and is no longer the rectangle the card was opened   *)
(* with, while the other one and the crop are.                             *)
OneOfTwoRedactionsDragged ==
    /\ lastEvent = "mousemove"
    /\ StartsWith(interactionType, "redaction")
    /\ Len(currentRedactions) = 2
    /\ selectedRedactionIndex \in 0 .. 1
    /\ currentRedactions[selectedRedactionIndex + 1] \notin SavedRedactions
    /\ currentRedactions[2 - selectedRedactionIndex] \in SavedRedactions
    /\ currentCropBox = FullImage

(* C37: for every buffer, including a fully white one, findContentBounds   *)
(* only reads pixels that exist: every (x, y) passed to isContent          *)
(* satisfies 0 <= x < width and 0 <= y < height.                           *)
OnlyExistingPixelsRead ==
    (call.fn = "findContentBounds" /\ call.result # NoRect) =>
        \A p \in call.reads :
            /\ 0 <= p[1] /\ p[1] < call.imageData.width
            /\ 0 <= p[2] /\ p[2] < call.imageData.height

(* C38: however many extractions run concurrently, the base AI session is  *)
(* created at most once: LanguageModel.create is called by setupAI at most *)
(* one time while baseSession is not reset, and every extraction prompts a *)
(* clone of that same base session.                                        *)
BaseSessionCreatedOnce ==
    Extracting =>
        /\ call.creates <= 1
        /\ \A e, f \in 1 .. Len(call.pc) :
              (call.pc[e] \in {"prompt", "done"} /\ call.pc[f] \in {"prompt", "done"})
                 => call.base[e] = call.base[f]

(* C39: when two extractions for the same card overlap, the fields finally *)
(* shown are those returned by the extraction started last, whatever the   *)
(* completion order.                                                       *)
LastStartedExtractionShown ==
    Extracting =>
        \A c \in ExtractionCards :
            LET of == { e \in 1 .. Len(call.pc) : call.card[e] = c }
            IN  (of # {} /\ \A e \in of : call.pc[e] = "done")
                   => \A e \in of : e <= call.shown[c]

(* C40: pushAllToYNAB changes the push-button state only of cards whose    *)
(* transactions it submitted: after the call completes (success or         *)
(* failure), every card not submitted (still processing, push button       *)
(* already disabled, or skipped for a validation error) has its push       *)
(* button in the same enabled/disabled state as before.                    *)
UnsubmittedButtonsKept ==
    Pushing("returned") =>
        \A i \in DOMAIN call.cards :
            i \notin call.processed
               => call.cards[i].disabled = call.before[i].disabled

====
